---- MODULE Spec2Model ----
(***************************************************************************)
(* Model of the mock OAuth1 server of TokenRelay:                          *)
(*   src/docker/mock-oauth1-server/oauth1_validator.py  (the validator)    *)
(*   src/docker/mock-oauth1-server/app.py               (the HTTP layer)   *)
(*                                                                         *)
(* Text is modelled character by character: a Python str is a sequence of  *)
(* one-character TLA+ strings, <<"G","E","T">> for 'GET'.  Python's None   *)
(* is the one-element sequence None, whose element is no character.  A     *)
(* Python dict is the sequence of its <<key, value>> items in insertion    *)
(* order, keys unique.  The base64 text of an HMAC digest is the sequence  *)
(* <<d, "=">> where d is one opaque symbol that is different for different *)
(* (hash, key, data) and "=" is the padding every SHA-1 / SHA-256 digest   *)
(* ends with.                                                              *)
(***************************************************************************)
EXTENDS Integers, Sequences, FiniteSets

(***************************************************************************)
(* Characters                                                              *)
(***************************************************************************)

\* The printable ASCII characters in code order: Printable[i] has code i + 31
\* (the grave accent, code 96, is written U+0060).
Printable ==
  << " ", "!", "\"", "#", "$", "%", "&", "'", "(", ")", "*", "+", ",", "-", ".", "/",
     "0", "1", "2", "3", "4", "5", "6", "7", "8", "9", ":", ";", "<", "=", ">", "?",
     "@", "A", "B", "C", "D", "E", "F", "G", "H", "I", "J", "K", "L", "M", "N", "O",
     "P", "Q", "R", "S", "T", "U", "V", "W", "X", "Y", "Z", "[", "\\", "]", "^", "_",
     "U+0060", "a", "b", "c", "d", "e", "f", "g", "h", "i", "j", "k", "l", "m", "n", "o",
     "p", "q", "r", "s", "t", "u", "v", "w", "x", "y", "z", "{", "|", "}", "~" >>

AsciiChars == { Printable[i] : i \in DOMAIN Printable }

\* One character outside ASCII, e with acute accent, whose UTF-8 encoding is the two bytes C3 A9.
EAcute == "U+00E9"

OrdTable == [ c \in AsciiChars |-> 31 + CHOOSE i \in DOMAIN Printable : Printable[i] = c ]

\* ord(c); the one non-ASCII character of the model has code point 233.
Ord(c) == IF c \in AsciiChars THEN OrdTable[c] ELSE IF c = EAcute THEN 233 ELSE 1000

Chr(n) == Printable[n - 31]

UpperLetters == <<"A", "B", "C", "D", "E", "F", "G", "H", "I", "J", "K", "L", "M", "N", "O", "P", "Q", "R", "S", "T", "U", "V", "W", "X", "Y", "Z">>
LowerLetters == <<"a", "b", "c", "d", "e", "f", "g", "h", "i", "j", "k", "l", "m", "n", "o", "p", "q", "r", "s", "t", "u", "v", "w", "x", "y", "z">>
Digits == <<"0", "1", "2", "3", "4", "5", "6", "7", "8", "9">>

UpperChars == { UpperLetters[i] : i \in DOMAIN UpperLetters }
LowerChars == { LowerLetters[i] : i \in DOMAIN LowerLetters }
DigitChars == { Digits[i] : i \in DOMAIN Digits }

IsUpperChar(c) == c \in UpperChars
IsLowerChar(c) == c \in LowerChars
IsDigitChar(c) == c \in DigitChars
IsAlphaChar(c) == IsUpperChar(c) \/ IsLowerChar(c)

\* The place of a letter in the alphabet.
LetterIndex(letters, c) == CHOOSE i \in DOMAIN letters : letters[i] = c

\* str.upper() and str.lower(), character by character.
UpperChar(c) == IF IsLowerChar(c) THEN UpperLetters[LetterIndex(LowerLetters, c)] ELSE c
LowerChar(c) == IF IsUpperChar(c) THEN LowerLetters[LetterIndex(UpperLetters, c)] ELSE c
Upper(s) == [ i \in 1..Len(s) |-> UpperChar(s[i]) ]
Lower(s) == [ i \in 1..Len(s) |-> LowerChar(s[i]) ]

\* Python's None.
None == << "<None>" >>

\* Python truthiness of an optional str: None and '' are falsy.
Truthy(s) == s # None /\ s # << >>

\* s[i:] and s[i:j] with 1-based inclusive positions.
From(s, i) == SubSeq(s, i, Len(s))

\* The least and the greatest element of a non-empty set of numbers.
MinOf(S) == CHOOSE x \in S : \A y \in S : x <= y
MaxOf(S) == CHOOSE x \in S : \A y \in S : x >= y

\* str.find(c, start): the first position >= start holding c, 0 when there is none.
Find(s, c, start) ==
  LET hits == { i \in start..Len(s) : s[i] = c }
  IN  IF hits = {} THEN 0 ELSE MinOf(hits)

\* str.rfind(c): the last position holding c, 0 when there is none.
RFind(s, c) ==
  LET hits == { i \in 1..Len(s) : s[i] = c }
  IN  IF hits = {} THEN 0 ELSE MaxOf(hits)

Contains(s, c) == \E i \in 1..Len(s) : s[i] = c

\* s.partition(c): the text before the first c (all of s when there is none) and
\* the text after it (empty when there is none).
Before(s, c) == IF Contains(s, c) THEN SubSeq(s, 1, Find(s, c, 1) - 1) ELSE s
After(s, c) == IF Contains(s, c) THEN From(s, Find(s, c, 1) + 1) ELSE << >>

\* s.startswith(p)
StartsWith(s, p) == Len(s) >= Len(p) /\ SubSeq(s, 1, Len(p)) = p

\* sep.join(parts)
RECURSIVE Join(_, _)
Join(sep, parts) ==
  IF parts = << >> THEN << >>
  ELSE IF Len(parts) = 1 THEN parts[1]
  ELSE parts[1] \o sep \o Join(sep, Tail(parts))

\* The strings of pieces[lo..hi] run together.
RECURSIVE Concat(_, _, _)
Concat(pieces, lo, hi) ==
  IF lo > hi THEN << >>
  ELSE IF lo = hi THEN pieces[lo]
  ELSE LET mid == (lo + hi) \div 2
       IN  Concat(pieces, lo, mid) \o Concat(pieces, mid + 1, hi)

\* Lexicographic order of two strings by code point (Python's str <).
FirstDiff(a, b) == MinOf({ i \in 1..Len(a) : i > Len(b) \/ a[i] # b[i] })

CharLess(c, d) == Ord(c) < Ord(d)

StrLess(a, b) ==
  IF \A i \in 1..Len(a) : i <= Len(b) /\ a[i] = b[i] THEN Len(a) < Len(b)
  ELSE FirstDiff(a, b) <= Len(b) /\ CharLess(a[FirstDiff(a, b)], b[FirstDiff(a, b)])

(***************************************************************************)
(* Numbers and text                                                        *)
(***************************************************************************)

\* str(n) for an integer n.
RECURSIVE NatToStr(_)
NatToStr(n) ==
  IF n < 10 THEN << Chr(48 + n) >>
  ELSE Append(NatToStr(n \div 10), Chr(48 + (n % 10)))

IntToStr(n) == IF n < 0 THEN << "-" >> \o NatToStr(0 - n) ELSE NatToStr(n)

\* The value of a string of decimal digits.
RECURSIVE DigitsValue(_, _, _)
DigitsValue(s, i, acc) ==
  IF i > Len(s) THEN acc
  ELSE DigitsValue(s, i + 1, 10 * acc + (LetterIndex(Digits, s[i]) - 1))

\* str.isdigit() and str.isascii(): a non-empty run of 0-9.
IsAsciiDigits(s) == Len(s) > 0 /\ \A i \in 1..Len(s) : IsDigitChar(s[i])

\* str.strip() for the one whitespace character of the model, the space.
RECURSIVE LStrip(_)
LStrip(s) == IF s # << >> /\ s[1] = " " THEN LStrip(Tail(s)) ELSE s

RECURSIVE RStrip(_)
RStrip(s) == IF s # << >> /\ s[Len(s)] = " " THEN RStrip(SubSeq(s, 1, Len(s) - 1)) ELSE s

\* The digits of an int() literal: decimal digits, single underscores allowed
\* between two digits.
IsIntDigits(s) ==
  /\ Len(s) > 0
  /\ \A i \in 1..Len(s) :
        \/ IsDigitChar(s[i])
        \/ s[i] = "_" /\ i > 1 /\ i < Len(s) /\ IsDigitChar(s[i - 1]) /\ IsDigitChar(s[i + 1])

RemoveUnderscores(s) == SelectSeq(s, LAMBDA c : c # "_")

\* int(s) for a str s: surrounding whitespace is ignored, an optional sign, then
\* digits.  IntParses(s) is FALSE where int(s) raises ValueError.
IntBody(s) ==
  LET t == RStrip(LStrip(s))
  IN  IF t # << >> /\ (t[1] = "-" \/ t[1] = "+") THEN Tail(t) ELSE t

IntParses(s) == IsIntDigits(IntBody(s))

IntValue(s) ==
  LET t == RStrip(LStrip(s))
      v == DigitsValue(RemoveUnderscores(IntBody(s)), 1, 0)
  IN  IF t[1] = "-" THEN 0 - v ELSE v

HexDigits == <<"0", "1", "2", "3", "4", "5", "6", "7", "8", "9", "A", "B", "C", "D", "E", "F">>

\* f'%{byte:02X}'
HexByte(b) == << "%", HexDigits[(b \div 16) + 1], HexDigits[(b % 16) + 1] >>

\* Whether c is a hexadecimal digit of either case, and its value.
IsHexChar(c) == \E i \in DOMAIN HexDigits : HexDigits[i] = UpperChar(c)
HexValue(c) == LetterIndex(HexDigits, UpperChar(c)) - 1

\* The symbols that stand for the letters and digits of a base64 digest.
IsDigestSymbol(c) == c \notin AsciiChars /\ c # EAcute /\ Len(c) > 6

(***************************************************************************)
(* percent_encode                                                          *)
(***************************************************************************)

UNRESERVED_CHARS ==
  { c \in AsciiChars : IsAlphaChar(c) \/ IsDigitChar(c) \/ c \in {"-", "_", ".", "~"} }

\* char.encode('utf-8'): the bytes of one character.
Utf8Bytes(c) == IF c = EAcute THEN << 195, 169 >> ELSE << Ord(c) >>

\* The encoding of one character with a space written as "+", as quote_plus has it.
PercentEncodeCharPlus(c) ==
  IF c \in UNRESERVED_CHARS \/ IsDigestSymbol(c) THEN << c >>
  ELSE IF c = " " THEN << "+" >>
  ELSE LET bs == Utf8Bytes(c)
       IN  IF Len(bs) = 2 THEN HexByte(bs[1]) \o HexByte(bs[2]) ELSE HexByte(bs[1])

\* One character of value: kept when unreserved, else %XX for each of its bytes.
PercentEncodeChar(c) ==
  IF c \in UNRESERVED_CHARS \/ IsDigestSymbol(c) THEN << c >>
  ELSE LET bs == Utf8Bytes(c)
       IN  IF Len(bs) = 2 THEN HexByte(bs[1]) \o HexByte(bs[2]) ELSE HexByte(bs[1])

percent_encode(value) ==
  IF ~Truthy(value) THEN << >>
  ELSE Concat([ i \in 1..Len(value) |-> PercentEncodeChar(value[i]) ], 1, Len(value))

(***************************************************************************)
(* urllib.parse.unquote, as parse_authorization_header uses it              *)
(***************************************************************************)

\* U+FFFD, which bytes.decode('utf-8', 'replace') puts for an invalid sequence.
ReplacementChar == "U+FFFD"

\* A control character 0..31 or 127, which the model does not tell apart.
ControlChar == "U+00XX"

IsEscapeAt(s, i) ==
  /\ i + 2 <= Len(s)
  /\ s[i] = "%"
  /\ IsHexChar(s[i + 1])
  /\ IsHexChar(s[i + 2])

EscapeByte(s, i) == 16 * HexValue(s[i + 1]) + HexValue(s[i + 2])

\* What position i of s contributes.  %XX escapes become the character of their
\* byte; a '%' that two hexadecimal digits do not follow stays; the bytes are
\* decoded as UTF-8 and a byte that starts no valid sequence becomes U+FFFD.  An
\* escape starts wherever '%' and two hexadecimal digits stand, '%' being no digit.
UnquoteByte(s, i, b) ==
  IF b >= 32 /\ b <= 126 THEN << Chr(b) >>
  ELSE IF b < 128 THEN << ControlChar >>
  ELSE IF b = 195 /\ IsEscapeAt(s, i + 3) /\ EscapeByte(s, i + 3) = 169 THEN << EAcute >>
  ELSE IF b = 169 /\ i > 3 /\ IsEscapeAt(s, i - 3) /\ EscapeByte(s, i - 3) = 195 THEN << >>
  ELSE << ReplacementChar >>

UnquoteAt(s, i) ==
  IF IsEscapeAt(s, i) THEN UnquoteByte(s, i, EscapeByte(s, i))
  ELSE IF (i > 1 /\ IsEscapeAt(s, i - 1)) \/ (i > 2 /\ IsEscapeAt(s, i - 2)) THEN << >>
  ELSE << s[i] >>

\* The value left as it stands in the header, its escapes not decoded.
unquote_kept(s) == s

unquote(s) ==
  IF ~Contains(s, "%") THEN s
  ELSE Concat([ i \in 1..Len(s) |-> UnquoteAt(s, i) ], 1, Len(s))

(***************************************************************************)
(* dict: the sequence of <<key, value>> items in insertion order            *)
(***************************************************************************)

EmptyDict == << >>

HasKey(d, k) == \E i \in 1..Len(d) : d[i][1] = k

\* d.get(k, default)
DictGet(d, k, default) ==
  IF HasKey(d, k) THEN d[CHOOSE i \in 1..Len(d) : d[i][1] = k][2] ELSE default

\* d[k] = v: an existing key keeps its place.
DictSet(d, k, v) ==
  IF HasKey(d, k) THEN [ i \in 1..Len(d) |-> IF d[i][1] = k THEN << k, v >> ELSE d[i] ]
  ELSE Append(d, << k, v >>)

(***************************************************************************)
(* parse_authorization_header                                              *)
(***************************************************************************)

OAuthPrefix == <<"O", "A", "u", "t", "h", " ">>

\* \w of a Python 3 str pattern: letters, digits and the underscore, of any script.
IsWordChar(c) ==
  IsAlphaChar(c) \/ IsDigitChar(c) \/ c = "_" \/ c = EAcute \/ IsDigestSymbol(c)

\* The start of the run of word characters that ends at e, not before position i.
WordStart(s, e, i) ==
  LET breaks == { p \in i..e : ~IsWordChar(s[p]) }
  IN  IF breaks = {} THEN i ELSE MaxOf(breaks) + 1

\* re.findall of (\w+)="([^"]*)" from position i on, each match stored with
\* params[key] = unquote(value).  A match needs a word character followed by ="
\* and a closing quote further on; \w+ is greedy and the scan goes from left to
\* right, so the key of a match is the whole run of word characters before the
\* "=" (from i on), and the scan goes on behind the closing quote.
\* The positions from i on where a key can end: an "=" before a quote and after a
\* word character.
KeyEnds(s, i) ==
  { e \in (i + 1)..(Len(s) - 2) : s[e] = "=" /\ s[e + 1] = "\"" /\ IsWordChar(s[e - 1]) }

RECURSIVE ScanPairs(_, _, _)

\* The match whose key ends before e, k being the closing quote (0: there is none).
ScanMatch(s, i, params, e, k) ==
  IF k = 0 THEN params
  ELSE ScanPairs(s, k + 1,
                 DictSet(params, SubSeq(s, WordStart(s, e - 1, i), e - 1),
                         unquote(SubSeq(s, e + 2, k - 1))))

ScanFrom(s, i, params, e) == ScanMatch(s, i, params, e, Find(s, "\"", e + 2))

ScanPairs(s, i, params) ==
  IF KeyEnds(s, i) = {} THEN params ELSE ScanFrom(s, i, params, MinOf(KeyEnds(s, i)))

\* The parser with the scheme compared without regard to case, which takes
\* "oauth " for the prefix as well.
parse_authorization_header_any_case(auth_header) ==
  IF ~Truthy(auth_header) \/ ~StartsWith(Lower(auth_header), Lower(OAuthPrefix)) THEN EmptyDict
  ELSE ScanPairs(From(auth_header, Len(OAuthPrefix) + 1), 1, EmptyDict)

parse_authorization_header(auth_header) ==
  IF ~Truthy(auth_header) \/ ~StartsWith(auth_header, OAuthPrefix) THEN EmptyDict
  ELSE ScanPairs(From(auth_header, Len(OAuthPrefix) + 1), 1, EmptyDict)

(***************************************************************************)
(* normalize_url, with the part of urllib.parse.urlparse it rests on        *)
(***************************************************************************)

\* What an operator yields where the Python function raises instead of returning.
RaisedValueError == << "<ValueError>" >>
RaisedIndexError == << "<IndexError>" >>

IsRaised(v) == v = RaisedValueError \/ v = RaisedIndexError

\* urllib.parse.scheme_chars
IsSchemeChar(c) == IsAlphaChar(c) \/ IsDigitChar(c) \/ c \in {"+", "-", "."}

\* urllib.parse.uses_params
uses_params ==
  { << >>, <<"f", "t", "p">>, <<"h", "d", "l">>, <<"p", "r", "o", "s", "p", "e", "r", "o">>, <<"h", "t", "t", "p">>, <<"i", "m", "a", "p">>, <<"h", "t", "t", "p", "s">>, <<"s", "h", "t", "t", "p">>,
    <<"r", "t", "s", "p">>, <<"r", "t", "s", "p", "s">>, <<"r", "t", "s", "p", "u">>, <<"s", "i", "p">>, <<"s", "i", "p", "s">>, <<"m", "m", "s">>, <<"s", "f", "t", "p">>, <<"t", "e", "l">> }

\* The position of the first of "/", "?", "#" at or after i, Len(s) + 1 when
\* there is none (_splitnetloc).
NetlocEnd(s, i) ==
  LET hits == { p \in i..Len(s) : s[p] \in {"/", "?", "#"} }
  IN  IF hits = {} THEN Len(s) + 1 ELSE MinOf(hits)

\* The bracketed hosts ipaddress accepts; the model knows the loopback address.
IsValidBracketedHost(h) == h = <<":", ":", "1">>

\* What urlsplit yields where it raises ValueError.
UrlRaised ==
  [ raised |-> TRUE, scheme |-> << >>, netloc |-> << >>, path |-> << >>,
    query |-> << >>, fragment |-> << >> ]

\* urlsplit, last part: the fragment has been taken off url; the query is split
\* off at the first "?".
SplitQuery(scheme, netloc, url, fragment) ==
  [ raised |-> FALSE, scheme |-> scheme, netloc |-> netloc, path |-> Before(url, "?"),
    query |-> After(url, "?"), fragment |-> fragment ]

\* The host between the brackets of a netloc.
BracketedHost(netloc) == Before(After(netloc, "["), "]")

\* urlsplit raises ValueError on a netloc with one bracket only, and on a
\* bracketed host that is no IP address.
NetlocRaises(netloc) ==
  \/ Contains(netloc, "[") # Contains(netloc, "]")
  \/ Contains(netloc, "[") /\ ~IsValidBracketedHost(BracketedHost(netloc))

\* urlsplit behind the scheme: the netloc is what follows "//" up to the first
\* of "/", "?", "#".
SplitNetloc(scheme, url) ==
  IF ~StartsWith(url, <<"/", "/">>) THEN SplitQuery(scheme, << >>, Before(url, "#"), After(url, "#"))
  ELSE IF NetlocRaises(SubSeq(url, 3, NetlocEnd(url, 3) - 1)) THEN UrlRaised
  ELSE SplitQuery(scheme, SubSeq(url, 3, NetlocEnd(url, 3) - 1),
                  Before(From(url, NetlocEnd(url, 3)), "#"),
                  After(From(url, NetlocEnd(url, 3)), "#"))

\* url starts with a scheme and a colon.
HasScheme(url) ==
  /\ Find(url, ":", 1) > 1
  /\ IsAlphaChar(url[1])
  /\ \A i \in 1..(Find(url, ":", 1) - 1) : IsSchemeChar(url[i])

\* urlsplit: [scheme, netloc, path, query, fragment]; raised is TRUE where it
\* raises ValueError.
UrlSplit(url) ==
  IF HasScheme(LStrip(url))
  THEN SplitNetloc(Lower(Before(LStrip(url), ":")), After(LStrip(url), ":"))
  ELSE SplitNetloc(<< >>, LStrip(url))

\* _splitparams: the path without the ";params" of its last segment.
SplitParamsPath(path) ==
  IF Contains(path, "/")
  THEN SubSeq(path, 1, RFind(path, "/")) \o Before(From(path, RFind(path, "/") + 1), ";")
  ELSE Before(path, ";")

\* urlparse, given the result r of urlsplit: the params are taken off the path.
ParseParams(r) ==
  IF r.raised THEN r
  ELSE IF r.scheme \in uses_params /\ Contains(r.path, ";")
       THEN [ r EXCEPT !.path = SplitParamsPath(r.path) ]
  ELSE r

\* urlparse(url)
UrlParse(url) == ParseParams(UrlSplit(url))

\* An empty port is None.
OrNone(port) == IF port = << >> THEN None ELSE port

\* _hostinfo of the text behind the last "@": <<hostname, port>>.
HostInfoOf(hostinfo) ==
  IF Contains(hostinfo, "[")
  THEN << Before(After(hostinfo, "["), "]"),
          OrNone(After(After(After(hostinfo, "["), "]"), ":")) >>
  ELSE << Before(hostinfo, ":"), OrNone(After(hostinfo, ":")) >>

\* _hostinfo: <<hostname, port>> of a netloc, the port None when empty or absent.
HostInfo(netloc) == HostInfoOf(From(netloc, RFind(netloc, "@") + 1))

\* The hostname h lower-cased up to a '%', None when empty.
HostnameOf(h) ==
  IF h = << >> THEN None
  ELSE IF ~Contains(h, "%") THEN Lower(h)
  ELSE Lower(Before(h, "%")) \o << "%" >> \o After(h, "%")

\* parsed.hostname
Hostname(netloc) == HostnameOf(HostInfo(netloc)[1])

MaxPort == 65535

\* parsed.port: -1 for None, -2 where the property raises ValueError (the port is
\* no run of digits, or is out of range).
PortNone == 0 - 1
PortRaises == 0 - 2

PortOf(p) ==
  IF p = None THEN PortNone
  ELSE IF ~IsAsciiDigits(p) THEN PortRaises
  ELSE IF DigitsValue(p, 1, 0) > MaxPort THEN PortRaises
  ELSE DigitsValue(p, 1, 0)

Port(netloc) == PortOf(HostInfo(netloc)[2])

DefaultHttpPort == 80
DefaultHttpsPort == 443

\* Lines 57-61: whether the port goes into the normalised URL.
include_port(scheme, port) ==
  IF (scheme = <<"h", "t", "t", "p">> /\ port = DefaultHttpPort)
     \/ (scheme = <<"h", "t", "t", "p", "s">> /\ port = DefaultHttpsPort) THEN FALSE
  ELSE IF port = PortNone THEN FALSE
  ELSE TRUE

\* Lines 62-67: the normalised URL put together; reading parsed.port raises
\* ValueError.
NormalizedUrl(scheme, hostname, port, path) ==
  IF port = PortRaises THEN RaisedValueError
  ELSE scheme \o <<":", "/", "/">> \o (IF Truthy(hostname) THEN Lower(hostname) ELSE << >>)
       \o (IF include_port(scheme, port) /\ port # 0 THEN << ":" >> \o IntToStr(port) ELSE << >>)
       \o (IF path # << >> THEN path ELSE <<"/">>)

\* normalize_url, given the result of urlparse.
NormalizeParsed(parsed) ==
  IF parsed.raised THEN RaisedValueError
  ELSE NormalizedUrl(Lower(parsed.scheme), Hostname(parsed.netloc), Port(parsed.netloc),
                     parsed.path)

normalize_url(url) == NormalizeParsed(UrlParse(url))

(***************************************************************************)
(* generate_signature_base_string                                          *)
(***************************************************************************)

\* (k1, v1) < (k2, v2) as Python orders tuples of str.
PairLess(a, b) ==
  IF a[1] = b[1] THEN StrLess(a[2], b[2]) ELSE StrLess(a[1], b[1])

\* One item put at its place in a sorted sequence, after the items equal to it.
RECURSIVE InsertSorted(_, _)
InsertSorted(sorted, item) ==
  IF sorted = << >> THEN << item >>
  ELSE IF PairLess(item, sorted[1]) THEN << item >> \o sorted
  ELSE << sorted[1] >> \o InsertSorted(Tail(sorted), item)

\* The items in the order they were inserted in.
SortedItemsAsInserted(items) == items

\* sorted(params.items(), key=lambda x: (x[0], x[1]))
RECURSIVE SortedItems(_)
SortedItems(items) ==
  IF items = << >> THEN << >>
  ELSE InsertSorted(SortedItems(SubSeq(items, 1, Len(items) - 1)), items[Len(items)])

\* f"{percent_encode(k)}={percent_encode(v)}" for each item, joined by "&".
NormalizedParams(sorted_params) ==
  Join(<< "&" >>,
       [ i \in 1..Len(sorted_params) |->
           percent_encode(sorted_params[i][1]) \o << "=" >>
             \o percent_encode(sorted_params[i][2]) ])

generate_signature_base_string(http_method, base_url, params) ==
  Upper(http_method) \o << "&" >> \o percent_encode(base_url)
    \o << "&" >> \o percent_encode(NormalizedParams(SortedItems(params)))

(***************************************************************************)
(* generate_signature                                                      *)
(***************************************************************************)

HMAC_SHA256 == <<"H", "M", "A", "C", "-", "S", "H", "A", "2", "5", "6">>
HMAC_SHA1 == <<"H", "M", "A", "C", "-", "S", "H", "A", "1">>

\* The characters of s run together into one symbol.
RECURSIVE Text(_, _, _)
Text(s, lo, hi) ==
  IF lo > hi THEN ""
  ELSE IF lo = hi THEN s[lo]
  ELSE LET mid == (lo + hi) \div 2
       IN  Text(s, lo, mid) \o Text(s, mid + 1, hi)

\* base64.b64encode(hmac.new(key, data, hash).digest()): HMAC is taken to be
\* free of collisions, so the text is one symbol per (hash, key, data), followed
\* by the "=" that pads a 20-byte and a 32-byte digest alike.  Key and data are
\* percent-encoded text and hold no space, which keeps the symbols apart.
Base64Hmac(hash, key_bytes, data_bytes) ==
  << hash \o " " \o Text(key_bytes, 1, Len(key_bytes)) \o " "
       \o Text(data_bytes, 1, Len(data_bytes)), "=" >>

\* f"{percent_encode(consumer_secret)}&{percent_encode(token_secret)}"
signing_key(consumer_secret, token_secret) ==
  percent_encode(consumer_secret) \o << "&" >> \o percent_encode(token_secret)

generate_signature(base_string, consumer_secret, token_secret, signature_method) ==
  IF signature_method = HMAC_SHA256
  THEN Base64Hmac("sha256", signing_key(consumer_secret, token_secret), base_string)
  ELSE IF signature_method = HMAC_SHA1
  THEN Base64Hmac("sha1", signing_key(consumer_secret, token_secret), base_string)
  ELSE RaisedValueError

(***************************************************************************)
(* validate_oauth1_request                                                 *)
(***************************************************************************)

oauth_consumer_key == <<"o", "a", "u", "t", "h", "_", "c", "o", "n", "s", "u", "m", "e", "r", "_", "k", "e", "y">>
oauth_token == <<"o", "a", "u", "t", "h", "_", "t", "o", "k", "e", "n">>
oauth_signature_method == <<"o", "a", "u", "t", "h", "_", "s", "i", "g", "n", "a", "t", "u", "r", "e", "_", "m", "e", "t", "h", "o", "d">>
oauth_timestamp == <<"o", "a", "u", "t", "h", "_", "t", "i", "m", "e", "s", "t", "a", "m", "p">>
oauth_nonce == <<"o", "a", "u", "t", "h", "_", "n", "o", "n", "c", "e">>
oauth_signature == <<"o", "a", "u", "t", "h", "_", "s", "i", "g", "n", "a", "t", "u", "r", "e">>
oauth_version == <<"o", "a", "u", "t", "h", "_", "v", "e", "r", "s", "i", "o", "n">>
realm_key == <<"r", "e", "a", "l", "m">>

\* The default of oauth_version.
Version10 == <<"1", ".", "0">>

\* The result of validate_oauth1_request.  A Python dict with varying keys is a
\* record of all the fields with the set of the keys that are present; a field
\* whose key is absent holds None.  raised names the exception when the call does
\* not return ("" when it returns).
NoDebug ==
  [ expected_signature |-> None, received_signature |-> None,
    signature_base_string |-> None, signing_params |-> EmptyDict ]

Failure(error, message, keys, params) ==
  [ raised |-> "", keys |-> {"valid", "error", "message"} \cup keys, valid |-> FALSE,
    error |-> error, message |-> message, oauth_params |-> params, debug |-> NoDebug ]

Raises(exception) ==
  [ raised |-> exception, keys |-> {}, valid |-> FALSE, error |-> "", message |-> << >>,
    oauth_params |-> EmptyDict, debug |-> NoDebug ]

\* f'{value}' of an optional str.
Fmt(v) == IF v = None THEN <<"N", "o", "n", "e">> ELSE v

\* A value of query_params: a str, or a list of str (is_list).
StrValue(s) == [ is_list |-> FALSE, text |-> s, items |-> << >> ]
ListValue(l) == [ is_list |-> TRUE, text |-> << >>, items |-> l ]

\* Lines 168-175: the parameters taken from the parsed header, with the
\* defaults of oauth_signature_method and oauth_version.
ExtractParams(oauth_params) ==
  [ consumer_key |-> DictGet(oauth_params, oauth_consumer_key, None),
    token |-> DictGet(oauth_params, oauth_token, None),
    signature_method |-> DictGet(oauth_params, oauth_signature_method, HMAC_SHA256),
    timestamp |-> DictGet(oauth_params, oauth_timestamp, None),
    nonce |-> DictGet(oauth_params, oauth_nonce, None),
    signature |-> DictGet(oauth_params, oauth_signature, None),
    realm |-> DictGet(oauth_params, realm_key, None),
    version |-> DictGet(oauth_params, oauth_version, Version10) ]

\* The names of the mandatory parameters that are None: a check of presence
\* that lets an empty value pass.
MissingNamesAbsent(p) ==
  (IF p.consumer_key = None THEN << oauth_consumer_key >> ELSE << >>)
  \o (IF p.token = None THEN << oauth_token >> ELSE << >>)
  \o (IF p.timestamp = None THEN << oauth_timestamp >> ELSE << >>)
  \o (IF p.nonce = None THEN << oauth_nonce >> ELSE << >>)
  \o (IF p.signature = None THEN << oauth_signature >> ELSE << >>)

\* Lines 178-188: the names of the mandatory parameters that are falsy, in the
\* order the code appends them.
MissingNames(p) ==
  (IF ~Truthy(p.consumer_key) THEN << oauth_consumer_key >> ELSE << >>)
  \o (IF ~Truthy(p.token) THEN << oauth_token >> ELSE << >>)
  \o (IF ~Truthy(p.timestamp) THEN << oauth_timestamp >> ELSE << >>)
  \o (IF ~Truthy(p.nonce) THEN << oauth_nonce >> ELSE << >>)
  \o (IF ~Truthy(p.signature) THEN << oauth_signature >> ELSE << >>)

\* value[0] of a list-valued query parameter raises IndexError on an empty list.
QueryRaises(query_params) ==
  \E i \in 1..Len(query_params) :
     query_params[i][2].is_list /\ query_params[i][2].items = << >>

\* The last value of a multi-valued key taken for the first.
LastValue(value) == IF value.is_list THEN value.items[Len(value.items)] ELSE value.text

\* value[0] if isinstance(value, list) else value
FirstValue(value) == IF value.is_list THEN value.items[1] ELSE value.text

\* for key, value in query_params.items(): sig_params[key] = first value
RECURSIVE AddQueryParams(_, _, _)
AddQueryParams(sig_params, query_params, i) ==
  IF i > Len(query_params) THEN sig_params
  ELSE AddQueryParams(DictSet(sig_params, query_params[i][1], FirstValue(query_params[i][2])),
                      query_params, i + 1)

\* The signing parameters with the realm of the header among them.
SigParamsWithRealm(p, query_params) ==
  AddQueryParams(
    << << oauth_consumer_key, p.consumer_key >>,
       << oauth_token, p.token >>,
       << oauth_signature_method, p.signature_method >>,
       << oauth_timestamp, p.timestamp >>,
       << oauth_nonce, p.nonce >>,
       << oauth_version, p.version >>,
       << realm_key, p.realm >> >>,
    query_params, 1)

\* Lines 252-265: the signing parameters, the six OAuth parameters and then the
\* query parameters.
SigParams(p, query_params) ==
  AddQueryParams(
    << << oauth_consumer_key, p.consumer_key >>,
       << oauth_token, p.token >>,
       << oauth_signature_method, p.signature_method >>,
       << oauth_timestamp, p.timestamp >>,
       << oauth_nonce, p.nonce >>,
       << oauth_version, p.version >> >>,
    query_params, 1)

\* abs(current_timestamp - request_timestamp) > timestamp_tolerance
Abs(n) == IF n < 0 THEN 0 - n ELSE n

\* The comparison with >= in place of >, which rejects a timestamp that is exactly
\* the tolerance away.
TimestampExpiredAtEdge(current_timestamp, request_timestamp, timestamp_tolerance) ==
  Abs(current_timestamp - request_timestamp) >= timestamp_tolerance

TimestampExpired(current_timestamp, request_timestamp, timestamp_tolerance) ==
  Abs(current_timestamp - request_timestamp) > timestamp_tolerance

\* signature != expected_signature
SignatureMismatch(signature, expected_signature) == signature # expected_signature

\* Lines 294-305: the verdict of a valid request.
Success(p) ==
  [ raised |-> "", keys |-> {"valid", "oauth_params"}, valid |-> TRUE,
    error |-> "", message |-> << >>,
    oauth_params |->
      << << <<"c", "o", "n", "s", "u", "m", "e", "r", "_", "k", "e", "y">>, p.consumer_key >>,
         << <<"t", "o", "k", "e", "n">>, p.token >>,
         << <<"s", "i", "g", "n", "a", "t", "u", "r", "e", "_", "m", "e", "t", "h", "o", "d">>, p.signature_method >>,
         << <<"t", "i", "m", "e", "s", "t", "a", "m", "p">>, p.timestamp >>,
         << <<"n", "o", "n", "c", "e">>, p.nonce >>,
         << <<"r", "e", "a", "l", "m">>, p.realm >>,
         << <<"v", "e", "r", "s", "i", "o", "n">>, p.version >> >>,
    debug |-> NoDebug ]

\* The comparison of the signatures with a mismatch reported without the debug
\* payload.
CompareSignaturesNoDebug(oauth_params, p, sig_params, base_string, expected_signature) ==
  IF IsRaised(expected_signature) THEN Raises("ValueError")
  ELSE IF SignatureMismatch(p.signature, expected_signature)
  THEN Failure("invalid_signature", << "Signature does not match" >>,
               {"oauth_params"}, oauth_params)
  ELSE Success(p)

\* Lines 280-305: the comparison of the signatures.  generate_signature has
\* raised ValueError where its method is none it knows.
CompareSignatures(oauth_params, p, sig_params, base_string, expected_signature) ==
  IF IsRaised(expected_signature) THEN Raises("ValueError")
  ELSE IF SignatureMismatch(p.signature, expected_signature)
  THEN [ Failure("invalid_signature", << "Signature does not match" >>,
                 {"oauth_params", "debug"}, oauth_params)
           EXCEPT !.debug = [ expected_signature |-> expected_signature,
                              received_signature |-> p.signature,
                              signature_base_string |-> base_string,
                              signing_params |-> sig_params ] ]
  ELSE Success(p)

\* Lines 272-277: the expected signature of the base string.
ExpectedSignatureStep(rq, oauth_params, p, sig_params, base_string) ==
  CompareSignatures(oauth_params, p, sig_params, base_string,
                    generate_signature(base_string, rq.credentials.consumer_secret,
                                       rq.credentials.token_secret, p.signature_method))

\* Lines 268-271: normalize_url has raised ValueError, or the base string is built.
BaseStringStep(rq, oauth_params, p, sig_params, base_url) ==
  IF IsRaised(base_url) THEN Raises("ValueError")
  ELSE ExpectedSignatureStep(rq, oauth_params, p, sig_params,
         generate_signature_base_string(rq.http_method, base_url, sig_params))

\* The signature step (lines 250-305): the signature is recomputed and compared.
SignatureStep(rq, oauth_params, p) ==
  IF QueryRaises(rq.query_params) THEN Raises("IndexError")
  ELSE BaseStringStep(rq, oauth_params, p, SigParams(p, rq.query_params),
                      normalize_url(rq.request_url))

\* The timestamp gate with its two codes exchanged.
TimestampStepConfused(rq, oauth_params, p) ==
  IF ~IntParses(p.timestamp)
  THEN Failure("expired_timestamp", << "Timestamp is not a valid integer" >>,
               {"oauth_params"}, oauth_params)
  ELSE IF TimestampExpired(rq.time_now, IntValue(p.timestamp), rq.timestamp_tolerance)
  THEN Failure("invalid_timestamp",
               << "Timestamp out of range. Current: " >> \o IntToStr(rq.time_now)
                 \o << ", Request: " >> \o IntToStr(IntValue(p.timestamp)),
               {"oauth_params"}, oauth_params)
  ELSE SignatureStep(rq, oauth_params, p)

\* The timestamp gate (lines 231-248), then the signature step.
TimestampStep(rq, oauth_params, p) ==
  IF ~IntParses(p.timestamp)
  THEN Failure("invalid_timestamp", << "Timestamp is not a valid integer" >>,
               {"oauth_params"}, oauth_params)
  ELSE IF TimestampExpired(rq.time_now, IntValue(p.timestamp), rq.timestamp_tolerance)
  THEN Failure("expired_timestamp",
               << "Timestamp out of range. Current: " >> \o IntToStr(rq.time_now)
                 \o << ", Request: " >> \o IntToStr(IntValue(p.timestamp)),
               {"oauth_params"}, oauth_params)
  ELSE SignatureStep(rq, oauth_params, p)

\* The realm gate with an empty realm of the credentials taken for a realm to
\* be matched.
RealmMismatchAlways(realm, configured_realm) == realm # configured_realm

\* if credentials.get('realm') and realm != credentials['realm']
RealmMismatch(realm, configured_realm) == Truthy(configured_realm) /\ realm # configured_realm

\* if signature_method not in allowed_methods
MethodAllowed(signature_method, allowed_methods) ==
  \E i \in 1..Len(allowed_methods) : allowed_methods[i] = signature_method

\* The gates with the token compared before the consumer key: the order that C1
\* tells from the order of the code.
ParameterGatesTokenFirst(rq, oauth_params, p) ==
  IF MissingNames(p) # << >>
  THEN Failure("missing_parameters",
               << "Missing required OAuth parameters: " >> \o Join(<<",", " ">>, MissingNames(p)),
               {"oauth_params"}, oauth_params)
  ELSE IF p.token # rq.credentials.token_id
  THEN Failure("invalid_token", << "Token does not match" >>,
               {"oauth_params"}, oauth_params)
  ELSE IF p.consumer_key # rq.credentials.consumer_key
  THEN Failure("invalid_consumer_key", << "Consumer key does not match" >>,
               {"oauth_params"}, oauth_params)
  ELSE IF RealmMismatch(p.realm, rq.credentials.realm)
  THEN Failure("invalid_realm",
               << "Realm does not match. Expected: " >> \o rq.credentials.realm
                 \o << ", Got: " >> \o Fmt(p.realm),
               {"oauth_params"}, oauth_params)
  ELSE IF ~MethodAllowed(p.signature_method, rq.credentials.signature_methods)
  THEN Failure("invalid_signature_method",
               << "Signature method not allowed: " >> \o p.signature_method,
               {"oauth_params"}, oauth_params)
  ELSE TimestampStep(rq, oauth_params, p)

\* The gates of lines 177-229 on the parameters p of the header, then the
\* timestamp gate.
ParameterGates(rq, oauth_params, p) ==
  IF MissingNames(p) # << >>
  THEN Failure("missing_parameters",
               << "Missing required OAuth parameters: " >> \o Join(<<",", " ">>, MissingNames(p)),
               {"oauth_params"}, oauth_params)
  ELSE IF p.consumer_key # rq.credentials.consumer_key
  THEN Failure("invalid_consumer_key", << "Consumer key does not match" >>,
               {"oauth_params"}, oauth_params)
  ELSE IF p.token # rq.credentials.token_id
  THEN Failure("invalid_token", << "Token does not match" >>,
               {"oauth_params"}, oauth_params)
  ELSE IF RealmMismatch(p.realm, rq.credentials.realm)
  THEN Failure("invalid_realm",
               << "Realm does not match. Expected: " >> \o rq.credentials.realm
                 \o << ", Got: " >> \o Fmt(p.realm),
               {"oauth_params"}, oauth_params)
  ELSE IF ~MethodAllowed(p.signature_method, rq.credentials.signature_methods)
  THEN Failure("invalid_signature_method",
               << "Signature method not allowed: " >> \o p.signature_method,
               {"oauth_params"}, oauth_params)
  ELSE TimestampStep(rq, oauth_params, p)

\* Lines 160-165: an empty parameter set is rejected, any other set goes on to
\* the gates.
HeaderGate(rq, oauth_params) ==
  IF oauth_params = EmptyDict
  THEN Failure("missing_authorization",
               << "Missing or invalid OAuth Authorization header" >>, {}, EmptyDict)
  ELSE ParameterGates(rq, oauth_params, ExtractParams(oauth_params))

\* validate_oauth1_request, with the value int(time.time()) yields as time_now.
validate_oauth1_request(http_method, request_url, auth_header, query_params, credentials, timestamp_tolerance, time_now) ==
  HeaderGate([ http_method |-> http_method, request_url |-> request_url,
               query_params |-> query_params, credentials |-> credentials,
               timestamp_tolerance |-> timestamp_tolerance, time_now |-> time_now ],
             parse_authorization_header(auth_header))

(***************************************************************************)
(* The HTTP layer: configuration and validate_request (app.py)             *)
(***************************************************************************)

\* A signature method that generate_signature does not know.
PLAINTEXT == <<"P", "L", "A", "I", "N", "T", "E", "X", "T">>

\* get_credentials(): the credentials the environment variables configure.
get_credentials(environ) ==
  [ consumer_key |-> environ.OAUTH1_CONSUMER_KEY,
    consumer_secret |-> environ.OAUTH1_CONSUMER_SECRET,
    token_id |-> environ.OAUTH1_TOKEN_ID,
    token_secret |-> environ.OAUTH1_TOKEN_SECRET,
    realm |-> environ.OAUTH1_REALM,
    signature_methods |-> environ.OAUTH1_SIGNATURE_METHOD ]

\* get_timestamp_tolerance()
get_timestamp_tolerance(environ) == environ.OAUTH1_TIMESTAMP_TOLERANCE

\* is_debug_mode()
is_debug_mode(environ) == Lower(environ.OAUTH1_DEBUG) = <<"t", "r", "u", "e">>

\* The URL validate_request hands to the validator: scheme and host from the
\* X-Forwarded-* headers when X-Forwarded-Proto is there, the query string put back.
RequestUrl(request) ==
  LET scheme == IF Truthy(request.forwarded_proto) THEN request.forwarded_proto
                ELSE request.scheme
      host == IF Truthy(request.forwarded_proto) /\ request.forwarded_host # None
              THEN request.forwarded_host
              ELSE request.host
  IN  scheme \o <<":", "/", "/">> \o host \o request.path
        \o (IF request.query_string # << >> THEN << "?" >> \o request.query_string
            ELSE << >>)

\* validate_request(), given the credentials and the tolerance it has read from
\* the environment and the clock value the validator reads.
validate_request(request, credentials, timestamp_tolerance, time_now) ==
  validate_oauth1_request(request.method, RequestUrl(request), request.authorization,
                          request.args, credentials, timestamp_tolerance, time_now)

(***************************************************************************)
(* The client: the requests the model sends                                *)
(*                                                                         *)
(* A client is described by what it intends to send (a record of the URL   *)
(* components, the OAuth parameters and the secrets it signs with).  The   *)
(* signature it sends is computed by the documented algorithm of spec.md   *)
(* sections 4.2 to 4.4; the URL and the header it sends are text.          *)
(***************************************************************************)

\* Section 4.2 of spec.md on the components of a URL: scheme and host in lower
\* case, the port kept unless absent or the default of the scheme, the path kept
\* ("/" when empty), the query string dropped.
DocumentedNormalizeUrl(c) ==
  LET scheme == Lower(c.scheme)
      isDefault == \/ scheme = <<"h", "t", "t", "p">> /\ c.port = <<"8", "0">>
                   \/ scheme = <<"h", "t", "t", "p", "s">> /\ c.port = <<"4", "4", "3">>
  IN  scheme \o <<":", "/", "/">> \o Lower(c.host)
        \o (IF c.port = None \/ isDefault THEN << >> ELSE << ":" >> \o c.port)
        \o (IF c.path = << >> THEN <<"/">> ELSE c.path)

\* The first value of each query parameter (section 4.3).
FirstValues(query) == [ i \in 1..Len(query) |-> << query[i][1], FirstValue(query[i][2]) >> ]

\* Section 4.3: the query parameters and the OAuth parameters without
\* oauth_signature and realm.  A client that omits oauth_signature_method or
\* oauth_version signs the documented default.
DocumentedSigningParams(c) ==
  FirstValues(c.query)
  \o << << oauth_version, IF c.version = None THEN Version10 ELSE c.version >>,
        << oauth_nonce, c.nonce >>,
        << oauth_timestamp, c.timestamp >>,
        << oauth_signature_method,
           IF c.signature_method = None THEN HMAC_SHA256 ELSE c.signature_method >>,
        << oauth_token, c.token >>,
        << oauth_consumer_key, c.consumer_key >> >>

\* The client can sign: its method is one of the two hashes and every
\* multi-valued query parameter has a first value.
CanSign(c) ==
  /\ c.signature_method \in {None, HMAC_SHA1, HMAC_SHA256}
  /\ ~QueryRaises(c.query)

\* Sections 4.3 and 4.4: the signature of the request the client describes.
DocumentedSignature(c) ==
  generate_signature(
    generate_signature_base_string(c.method, DocumentedNormalizeUrl(c),
                                   DocumentedSigningParams(c)),
    c.consumer_secret, c.token_secret,
    IF c.signature_method = None THEN HMAC_SHA256 ELSE c.signature_method)

\* The URL as text.
UrlText(c) ==
  c.scheme \o <<":", "/", "/">> \o c.host
    \o (IF c.port = None THEN << >> ELSE << ":" >> \o c.port)
    \o c.path
    \o (IF c.query_string = << >> THEN << >> ELSE << "?" >> \o c.query_string)

\* name="percent-encoded value"
HeaderPair(name, value) ==
  name \o << "=", "\"" >> \o percent_encode(value) \o << "\"" >>

Optional(name, value) == IF value = None THEN << >> ELSE << HeaderPair(name, value) >>

\* The Authorization header of the client, the signature being sig (None: left out).
HeaderText(c, sig) ==
  IF c.scheme_token = None THEN None
  ELSE c.scheme_token
       \o Join(<<",", " ">>,
               Optional(realm_key, c.realm)
               \o Optional(oauth_consumer_key, c.consumer_key)
               \o Optional(oauth_token, c.token)
               \o Optional(oauth_signature_method, c.signature_method)
               \o Optional(oauth_timestamp, c.timestamp)
               \o Optional(oauth_nonce, c.nonce)
               \o Optional(oauth_version, c.version)
               \o Optional(oauth_signature, sig))
       \o c.junk

GarbageSignature == <<"A", "A", "A", "A", "=">>

\* The signature the client sends: the documented one, the documented one under
\* other secrets, some other text, an empty one, or none.
SentSignature(c) ==
  IF c.sign = "omitted" THEN None
  ELSE IF c.sign = "empty" THEN << >>
  ELSE IF c.sign = "garbage" \/ ~CanSign(c) THEN GarbageSignature
  ELSE DocumentedSignature(c)

\* What validate_oauth1_request is called with when the client describes c and,
\* after signing, sends w (w = c for a client that does not tamper).
CallOf(c, w) ==
  [ http_method |-> w.method,
    request_url |-> UrlText(w),
    auth_header |-> HeaderText(w, SentSignature(c)),
    query_params |-> w.query ]

(***************************************************************************)
(* The environments and the requests of the model                          *)
(***************************************************************************)

\* The clock starts at ClockStart and is read up to MaxTicks seconds later.
ClockStart == 10
MaxTicks == 2

\* The configurations of the server: the documented one, one without a realm
\* that allows one method, and one whose OAUTH1_SIGNATURE_METHOD names a method
\* generate_signature does not know.
BaseEnviron ==
  [ OAUTH1_CONSUMER_KEY |-> <<"c", "k">>,
    OAUTH1_CONSUMER_SECRET |-> <<"c", " ", "s">>,
    OAUTH1_TOKEN_ID |-> <<"t", "k">>,
    OAUTH1_TOKEN_SECRET |-> <<"t", "s">>,
    OAUTH1_REALM |-> <<"r", "1">>,
    OAUTH1_SIGNATURE_METHOD |-> << HMAC_SHA256, HMAC_SHA1 >>,
    OAUTH1_TIMESTAMP_TOLERANCE |-> 2,
    OAUTH1_DEBUG |-> <<"f", "a", "l", "s", "e">> ]

Environs ==
  { BaseEnviron,
    [ BaseEnviron EXCEPT !.OAUTH1_REALM = << >>,
                         !.OAUTH1_SIGNATURE_METHOD = << HMAC_SHA1 >>,
                         !.OAUTH1_TIMESTAMP_TOLERANCE = 1 ],
    [ BaseEnviron EXCEPT !.OAUTH1_SIGNATURE_METHOD = << HMAC_SHA256, HMAC_SHA1, PLAINTEXT >> ] }

\* The configurations with the debug mode off and on.
HttpEnvirons == Environs \cup { [ e EXCEPT !.OAUTH1_DEBUG = <<"T", "r", "u", "e">> ] : e \in Environs }

\* The well-formed request of a client that knows the configuration env, made
\* at time t.
Golden(env, t) ==
  [ method |-> <<"G", "E", "T">>,
    scheme |-> <<"h", "t", "t", "p">>, host |-> <<"a", ".", "b">>, port |-> None, path |-> <<"/", "r">>,
    query_string |-> << >>, query |-> EmptyDict,
    scheme_token |-> OAuthPrefix, bare |-> FALSE, junk |-> << >>,
    realm |-> IF env.OAUTH1_REALM = << >> THEN None ELSE env.OAUTH1_REALM,
    consumer_key |-> env.OAUTH1_CONSUMER_KEY,
    token |-> env.OAUTH1_TOKEN_ID,
    signature_method |-> HMAC_SHA1,
    timestamp |-> IntToStr(t),
    nonce |-> <<"n", "1">>,
    version |-> Version10,
    consumer_secret |-> env.OAUTH1_CONSUMER_SECRET,
    token_secret |-> env.OAUTH1_TOKEN_SECRET,
    sign |-> "signed" ]

\* A header that carries nothing but its scheme token and junk.
Bare(c, token, junk) ==
  [ c EXCEPT !.scheme_token = token, !.junk = junk, !.realm = None,
             !.consumer_key = None, !.token = None, !.signature_method = None,
             !.timestamp = None, !.nonce = None, !.version = None, !.sign = "omitted" ]

\* The ways a request departs from another one; tol is the tolerance the client
\* aims at and t the time it takes for now.
Deviate(c, d, tol, t) ==
  CASE d = "none" -> c
    [] d = "hdr_absent" -> Bare(c, None, << >>)
    [] d = "hdr_empty" -> Bare(c, << >>, << >>)
    [] d = "hdr_nopairs" -> Bare(c, OAuthPrefix, << >>)
    [] d = "hdr_junk" -> Bare(c, OAuthPrefix, <<"a", " ", "=", " ", "\"", "1", "\"", ",", " ", "=", "b", ",", " ", "c", "=", "\"", "2">>)
    [] d = "hdr_lower" -> [ c EXCEPT !.scheme_token = <<"o", "a", "u", "t", "h", " ">> ]
    [] d = "hdr_bearer" -> [ c EXCEPT !.scheme_token = <<"B", "e", "a", "r", "e", "r", " ">> ]
    [] d = "hdr_nospace" -> [ c EXCEPT !.scheme_token = <<"O", "A", "u", "t", "h">> ]
    [] d = "ck_omit" -> [ c EXCEPT !.consumer_key = None ]
    [] d = "ck_empty" -> [ c EXCEPT !.consumer_key = << >> ]
    [] d = "ck_wrong" -> [ c EXCEPT !.consumer_key = <<"x", "x">> ]
    [] d = "tk_omit" -> [ c EXCEPT !.token = None ]
    [] d = "tk_wrong" -> [ c EXCEPT !.token = <<"x", "x">> ]
    [] d = "ts_omit" -> [ c EXCEPT !.timestamp = None ]
    [] d = "ts_bad" -> [ c EXCEPT !.timestamp = <<"1", "x">> ]
    [] d = "ts_spaces" -> [ c EXCEPT !.timestamp = << " " >> \o IntToStr(t) \o << " " >> ]
    [] d = "ts_old" -> [ c EXCEPT !.timestamp = IntToStr(t - tol - 1) ]
    [] d = "ts_edge_old" -> [ c EXCEPT !.timestamp = IntToStr(t - tol) ]
    [] d = "ts_edge_new" -> [ c EXCEPT !.timestamp = IntToStr(t + tol) ]
    [] d = "ts_new" -> [ c EXCEPT !.timestamp = IntToStr(t + tol + 1) ]
    [] d = "nonce_omit" -> [ c EXCEPT !.nonce = None ]
    [] d = "nonce_empty" -> [ c EXCEPT !.nonce = << >> ]
    [] d = "nonce_other" -> [ c EXCEPT !.nonce = <<"n", "/", "2">> ]
    [] d = "sig_omit" -> [ c EXCEPT !.sign = "omitted" ]
    [] d = "sig_empty" -> [ c EXCEPT !.sign = "empty" ]
    [] d = "sig_garbage" -> [ c EXCEPT !.sign = "garbage" ]
    [] d = "sig_wrong_secret" -> [ c EXCEPT !.token_secret = <<"z", "z">> ]
    [] d = "sm_omit" -> [ c EXCEPT !.signature_method = None ]
    [] d = "sm_sha256" -> [ c EXCEPT !.signature_method = HMAC_SHA256 ]
    [] d = "sm_plaintext" -> [ c EXCEPT !.signature_method = PLAINTEXT ]
    [] d = "realm_omit" -> [ c EXCEPT !.realm = None ]
    [] d = "realm_wrong" -> [ c EXCEPT !.realm = <<"r", "2">> ]
    [] d = "ver_omit" -> [ c EXCEPT !.version = None ]
    [] d = "ver_2" -> [ c EXCEPT !.version = <<"2", ".", "0">> ]
    [] d = "m_lower" -> [ c EXCEPT !.method = <<"g", "e", "t">> ]
    [] d = "m_post" -> [ c EXCEPT !.method = <<"P", "O", "S", "T">> ]
    [] d = "scheme_upper" -> [ c EXCEPT !.scheme = <<"H", "T", "T", "P">> ]
    [] d = "scheme_https" -> [ c EXCEPT !.scheme = <<"h", "t", "t", "p", "s">> ]
    [] d = "host_upper" -> [ c EXCEPT !.host = <<"A", ".", "b">> ]
    [] d = "port_default" -> [ c EXCEPT !.port = <<"8", "0">> ]
    [] d = "port_81" -> [ c EXCEPT !.port = <<"8", "1">> ]
    [] d = "port_0" -> [ c EXCEPT !.port = <<"0">> ]
    [] d = "port_big" -> [ c EXCEPT !.port = <<"6", "5", "5", "3", "6">> ]
    [] d = "path_empty" -> [ c EXCEPT !.path = << >> ]
    [] d = "path_other" -> [ c EXCEPT !.path = <<"/", "s">> ]
    [] d = "path_params" -> [ c EXCEPT !.path = <<"/", "r", ";", "p">> ]
    [] d = "query_one" ->
         [ c EXCEPT !.query_string = <<"a", "=", "1">>,
                    !.query = << << <<"a">>, StrValue(<<"1">>) >> >> ]
    [] d = "query_other" ->
         [ c EXCEPT !.query_string = <<"a", "=", "2">>,
                    !.query = << << <<"a">>, StrValue(<<"2">>) >> >> ]
    [] d = "query_list" ->
         [ c EXCEPT !.query_string = <<"a", "=", "1", "&", "a", "=", "2">>,
                    !.query = << << <<"a">>, ListValue(<< <<"1">>, <<"2">> >>) >> >> ]
    [] d = "query_list_tail" ->
         [ c EXCEPT !.query_string = <<"a", "=", "1", "&", "a", "=", "3">>,
                    !.query = << << <<"a">>, ListValue(<< <<"1">>, <<"3">> >>) >> >> ]
    [] d = "query_realm" ->
         [ c EXCEPT !.query_string = <<"r", "e", "a", "l", "m", "=", "x">>,
                    !.query = << << realm_key, StrValue(<<"x">>) >> >> ]
    [] d = "query_two" ->
         [ c EXCEPT !.query_string = <<"a", "=", "1", "&", "b", "=", "2">>,
                    !.query = << << <<"a">>, StrValue(<<"1">>) >>, << <<"b">>, StrValue(<<"2">>) >> >> ]
    [] d = "query_empty_list" ->
         [ c EXCEPT !.query = << << <<"a">>, ListValue(<< >>) >> >> ]

\* Every deviation.
Deviations ==
  { "none", "hdr_absent", "hdr_empty", "hdr_nopairs", "hdr_junk", "hdr_lower",
    "hdr_bearer", "hdr_nospace", "ck_omit", "ck_empty", "ck_wrong", "tk_omit",
    "tk_wrong", "ts_omit", "ts_bad", "ts_spaces", "ts_old", "ts_edge_old",
    "ts_edge_new", "ts_new", "nonce_omit", "nonce_empty", "nonce_other", "sig_omit",
    "sig_empty", "sig_garbage", "sig_wrong_secret", "sm_omit", "sm_sha256",
    "sm_plaintext", "realm_omit", "realm_wrong", "ver_omit", "ver_2", "m_lower",
    "m_post", "scheme_upper", "scheme_https", "host_upper", "port_default", "port_81",
    "port_0", "port_big", "path_empty", "path_other", "path_params", "query_one",
    "query_other", "query_list", "query_list_tail", "query_realm", "query_two",
    "query_empty_list" }

\* The deviations a second departure is taken from: one that fails each gate,
\* and the changes of the signed material.
SecondDeviations ==
  { "none", "hdr_bearer", "nonce_omit", "ck_wrong", "tk_wrong", "realm_wrong",
    "sm_plaintext", "ts_bad", "ts_old", "sig_garbage", "m_post", "path_other",
    "port_big", "query_other", "nonce_other" }

\* The departures of the requests that are changed after signing.
SignedDeviations == { "none", "query_one", "sm_sha256", "port_81" }

(***************************************************************************)
(* The state machine                                                       *)
(***************************************************************************)

VARIABLES
  environ,     \* os.environ: written before the process starts, only read after
  now,         \* the value int(time.time()) yields
  phase,       \* "idle", or "returned" when a call of the validator has returned
  call,        \* the last call: the request as described (c), as sent (w), the
               \* arguments (args) and the clock value the validator read (time)
  verdict,     \* what the last call returned
  remembered,  \* a call the client will make again, with the verdict it got
  workers,     \* the frame of validate_request in each thread of the server
  response,    \* the HTTP response of the endpoint that was called last
  probe,       \* a function of the validator applied to an input, with its output
  tokens,      \* the token storage of the mock OAuth 2.0 server
  oauth2       \* the OAuth 2.0 server besides its storage: the clock, the uuids
               \* drawn, the tokens it has sent and its last reply

vars ==
  << environ, now, phase, call, verdict, remembered, workers, response, probe, tokens,
     oauth2 >>

\* No call is in progress.
NoCall ==
  [ made |-> FALSE, d1 |-> "none", d2 |-> "none", tamper |-> FALSE,
    c |-> Golden(BaseEnviron, 0), w |-> Golden(BaseEnviron, 0),
    args |-> [ http_method |-> << >>, request_url |-> << >>, auth_header |-> None,
               query_params |-> EmptyDict ],
    time |-> 0, replay |-> FALSE ]

NoVerdict == Raises("")

\* Nothing is remembered.
NoMemory == [ call |-> NoCall, verdict |-> NoVerdict ]

\* The threads of the server that serve requests side by side.
Threads == {1, 2}

\* The request of a thread that serves none.
NoRequest ==
  [ method |-> << >>, scheme |-> << >>, host |-> << >>, path |-> << >>,
    query_string |-> << >>, forwarded_proto |-> None, forwarded_host |-> None,
    authorization |-> None, args |-> EmptyDict ]

\* The frame of a thread that serves no request.
IdleWorker ==
  [ stage |-> "idle", request |-> NoRequest, credentials |-> get_credentials(BaseEnviron),
    timestamp_tolerance |-> 0, current_timestamp |-> 0, result |-> NoVerdict ]

\* No endpoint has been called, and no function has been applied.
NoResponse == [ endpoint |-> "", status |-> 0, body |-> << >>, result |-> NoVerdict ]
NoProbe == [ op |-> "", input |-> << >>, output |-> << >> ]

\* The reply of the OAuth 2.0 server before any request.
NoReply ==
  [ endpoint |-> "", authorization |-> None, at |-> 0, status |-> 0, error |-> "",
    access_token |-> None, refresh_token |-> None ]

\* The OAuth 2.0 server at its start: time.time() yields 0, no uuid has been
\* drawn, no token has been sent.
Started == [ time |-> 0, uuids |-> 0, issued |-> << >>, minted |-> {}, reply |-> NoReply ]

Init ==
  /\ environ \in Environs
  /\ now = ClockStart
  /\ phase = "idle"
  /\ call = NoCall
  /\ verdict = NoVerdict
  /\ remembered = NoMemory
  /\ workers = [ t \in Threads |-> IdleWorker ]
  /\ response = NoResponse
  /\ probe = NoProbe
  /\ tokens = EmptyDict
  /\ oauth2 = Started

\* A second passes between two calls.
Tick ==
  /\ phase = "idle"
  /\ now < ClockStart + MaxTicks
  /\ now' = now + 1
  /\ UNCHANGED << environ, phase, call, verdict, remembered, workers, response, probe, tokens, oauth2 >>

\* A validator that keeps the requests it has seen and rejects the arguments it
\* has accepted before.
ValidateOnce(args) ==
  IF remembered # NoMemory /\ remembered.verdict.valid /\ remembered.call.args = args
  THEN Failure("nonce_used", << "Nonce has been used" >>, {}, EmptyDict)
  ELSE validate_oauth1_request(args.http_method, args.request_url, args.auth_header,
                               args.query_params, get_credentials(environ),
                               get_timestamp_tolerance(environ), now)

\* The validator's answer to the arguments args at the clock value now.
Validate(args) ==
  validate_oauth1_request(args.http_method, args.request_url, args.auth_header,
                          args.query_params, get_credentials(environ),
                          get_timestamp_tolerance(environ), now)

\* The validator is called with the arguments of the call made and returns.
Submit(made) ==
  /\ call' = made
  /\ verdict' = Validate(made.args)
  /\ phase' = "returned"
  /\ UNCHANGED << environ, now, remembered, workers, response, probe, tokens, oauth2 >>

\* The call of the client that describes c and sends w.
Issue(d1, d2, tamper, c, w) ==
  Submit([ made |-> TRUE, d1 |-> d1, d2 |-> d2, tamper |-> tamper, c |-> c, w |-> w,
           args |-> CallOf(c, w), time |-> now, replay |-> FALSE ])

\* The well-formed request of the moment with the departure d, and with the
\* departures d1 and d2.
Departed(d) == Deviate(Golden(environ, now), d, get_timestamp_tolerance(environ), now)
DepartedTwice(d1, d2) == Deviate(Departed(d1), d2, get_timestamp_tolerance(environ), now)

\* A client describes a request that departs from the well-formed one by d1 and
\* d2, signs it and sends it.  The validator is called with it and returns.
Call(d1, d2) ==
  /\ phase = "idle"
  /\ remembered = NoMemory
  /\ Issue(d1, d2, FALSE, DepartedTwice(d1, d2), DepartedTwice(d1, d2))

\* A client describes a request that departs by d1 and signs it; the request is
\* changed by d2 on its way and the validator is called with the changed one.
Tamper(d1, d2) ==
  /\ phase = "idle"
  /\ remembered = NoMemory
  /\ Issue(d1, d2, TRUE, Departed(d1), DepartedTwice(d1, d2))

\* The client makes the remembered call again, as it is.
Replay ==
  /\ phase = "idle"
  /\ remembered # NoMemory
  /\ Submit([ remembered.call EXCEPT !.time = now, !.replay = TRUE ])

\* The calls a client makes again: the accepted ones, and the rejected ones that
\* depart from the well-formed request once.
Repeatable(made, result) == result.valid \/ (made.d2 = "none" /\ ~made.tamper)

\* The caller takes the verdict and the frame of the call is gone.
Forget ==
  /\ phase = "returned"
  /\ phase' = "idle"
  /\ call' = NoCall
  /\ verdict' = NoVerdict
  /\ UNCHANGED << environ, now, remembered, workers, response, probe, tokens, oauth2 >>

\* The caller takes the verdict and the client keeps the call to make it again.
Remember ==
  /\ phase = "returned"
  /\ remembered = NoMemory
  /\ Repeatable(call, verdict)
  /\ phase' = "idle"
  /\ remembered' = [ call |-> call, verdict |-> verdict ]
  /\ call' = NoCall
  /\ verdict' = NoVerdict
  /\ UNCHANGED << environ, now, workers, response, probe, tokens, oauth2 >>

Next ==
  \/ Tick
  \/ \E d1 \in Deviations, d2 \in SecondDeviations : Call(d1, d2)
  \/ \E d1 \in SignedDeviations, d2 \in SecondDeviations : Tamper(d1, d2)
  \/ Replay
  \/ Forget
  \/ Remember

Spec == Init /\ [][Next]_vars

(***************************************************************************)
(* Requests served side by side                                            *)
(*                                                                         *)
(* Each thread of the server runs validate_request on its own request.     *)
(* What a thread holds is local to its frame: the request, the credentials *)
(* and the tolerance it has read from the environment, the clock value it  *)
(* has read and its result.  The environment and the clock are the state   *)
(* the threads share, and they only read them.  A thread reads the clock   *)
(* once, at the timestamp gate, when the gates before it have passed.      *)
(***************************************************************************)

\* The requests the threads serve.
ThreadDeviations == { "none", "ck_wrong", "ts_edge_old", "ts_edge_new", "port_big" }

\* The HTTP request of the client that describes c.
RequestOf(c) ==
  [ method |-> c.method, scheme |-> c.scheme,
    host |-> c.host \o (IF c.port = None THEN << >> ELSE << ":" >> \o c.port),
    path |-> c.path, query_string |-> c.query_string,
    forwarded_proto |-> None, forwarded_host |-> None,
    authorization |-> HeaderText(c, SentSignature(c)), args |-> c.query ]

\* The validator gets as far as reading the clock: the parameter set is not
\* empty and the parameters p pass the gates before the timestamp gate.
ReachesClockWith(oauth_params, p, credentials) ==
  /\ oauth_params # EmptyDict
  /\ MissingNames(p) = << >>
  /\ p.consumer_key = credentials.consumer_key
  /\ p.token = credentials.token_id
  /\ ~(Truthy(credentials.realm) /\ p.realm # credentials.realm)
  /\ MethodAllowed(p.signature_method, credentials.signature_methods)
  /\ IntParses(p.timestamp)

ReachesClockOf(oauth_params, credentials) ==
  ReachesClockWith(oauth_params, ExtractParams(oauth_params), credentials)

ReachesClock(w) ==
  ReachesClockOf(parse_authorization_header(w.request.authorization), w.credentials)

\* A clock value read by another thread, where one has read the clock: what
\* thread t would find in current_timestamp were the variable shared.
ClockReadShared(t) ==
  IF \E u \in Threads \ {t} : workers[u].stage \in {"timestamp", "returned"}
  THEN workers[CHOOSE u \in Threads \ {t} : workers[u].stage \in {"timestamp", "returned"}].current_timestamp
  ELSE workers[t].current_timestamp

\* current_timestamp of thread t, a local variable of its call.
ClockRead(t) == workers[t].current_timestamp

\* Thread t takes a request: validate_request reads the header, the
\* credentials, the URL and the tolerance.
Begin(t, d) ==
  /\ workers[t].stage = "idle"
  /\ workers' = [ workers EXCEPT ![t] =
                    [ stage |-> "called",
                      request |-> RequestOf(Departed(d)),
                      credentials |-> get_credentials(environ),
                      timestamp_tolerance |-> get_timestamp_tolerance(environ),
                      current_timestamp |-> 0,
                      result |-> NoVerdict ] ]
  /\ UNCHANGED << environ, now, phase, call, verdict, remembered, response, probe, tokens, oauth2 >>

\* The validator of thread t returns at a gate before the timestamp gate.
ReturnEarly(t) ==
  /\ workers[t].stage = "called"
  /\ ~ReachesClock(workers[t])
  /\ workers' = [ workers EXCEPT
                    ![t].stage = "returned",
                    ![t].current_timestamp = now,
                    ![t].result = validate_request(workers[t].request, workers[t].credentials,
                                                   workers[t].timestamp_tolerance, now) ]
  /\ UNCHANGED << environ, now, phase, call, verdict, remembered, response, probe, tokens, oauth2 >>

\* The validator of thread t reads the clock: current_timestamp = int(time.time()).
ReadClock(t) ==
  /\ workers[t].stage = "called"
  /\ ReachesClock(workers[t])
  /\ workers' = [ workers EXCEPT ![t].stage = "timestamp", ![t].current_timestamp = now ]
  /\ UNCHANGED << environ, now, phase, call, verdict, remembered, response, probe, tokens, oauth2 >>

\* The validator of thread t goes on from the clock value it has read and returns.
Finish(t) ==
  /\ workers[t].stage = "timestamp"
  /\ workers' = [ workers EXCEPT
                    ![t].stage = "returned",
                    ![t].result = validate_request(workers[t].request, workers[t].credentials,
                                                   workers[t].timestamp_tolerance, ClockRead(t)) ]
  /\ UNCHANGED << environ, now, phase, call, verdict, remembered, response, probe, tokens, oauth2 >>

\* Thread t has sent its response and its frame is gone.
Respond(t) ==
  /\ workers[t].stage = "returned"
  /\ workers' = [ workers EXCEPT ![t] = IdleWorker ]
  /\ UNCHANGED << environ, now, phase, call, verdict, remembered, response, probe, tokens, oauth2 >>

NextConc ==
  \/ Tick
  \/ \E t \in Threads, d \in ThreadDeviations : Begin(t, d)
  \/ \E t \in Threads : ReturnEarly(t)
  \/ \E t \in Threads : ReadClock(t)
  \/ \E t \in Threads : Finish(t)
  \/ \E t \in Threads : Respond(t)

SpecConc == Init /\ [][NextConc]_vars

(***************************************************************************)
(* The endpoints of the OAuth1 server (app.py)                             *)
(*                                                                         *)
(* The JSON body of a response is the sequence of its leaves, each a pair  *)
(* of the path of keys that leads to it and its value as text.             *)
(***************************************************************************)

\* The leaves of a dict of text values under the key name.
DictLeaves(name, dict) ==
  [ i \in 1..Len(dict) |-> << << name >> \o dict[i][1], dict[i][2] >> ]

\* The leaves of dict(request.args) under the key name.
QueryLeaves(name, query) ==
  [ i \in 1..Len(query) |->
      << << name >> \o query[i][1],
         IF query[i][2].is_list THEN Join(<<",">>, query[i][2].items) ELSE query[i][2].text >> ]

\* The leaves of the debug payload of a verdict under the key name.
DebugLeaves(name, debug) ==
  << << << name, "expected_signature" >>, debug.expected_signature >>,
     << << name, "received_signature" >>, debug.received_signature >>,
     << << name, "signature_base_string" >>, debug.signature_base_string >> >>
  \o [ i \in 1..Len(debug.signing_params) |->
         << << name, "signing_params" >> \o debug.signing_params[i][1],
            debug.signing_params[i][2] >> ]

\* jsonify of a bool.
JsonBool(b) == IF b THEN <<"t", "r", "u", "e">> ELSE <<"f", "a", "l", "s", "e">>

\* result.get('error', default) and result.get('message', default)
ErrorOf(result, default) == IF "error" \in result.keys THEN << result.error >> ELSE default
MessageOf(result, default) == IF "message" \in result.keys THEN result.message ELSE default

\* result.get('oauth_params', {})
ParamsOf(result) == IF "oauth_params" \in result.keys THEN result.oauth_params ELSE EmptyDict

\* Lines 94-98: the body of a failure.
FailureLeaves(result) ==
  << << << "status" >>, <<"e", "r", "r", "o", "r">> >>,
     << << "error" >>, ErrorOf(result, << "unknown_error" >>) >>,
     << << "message" >>, MessageOf(result, <<"O", "A", "u", "t", "h", "1", " ", "s", "i", "g", "n", "a", "t", "u", "r", "e", " ", "v", "a", "l", "i", "d", "a", "t", "i", "o", "n", " ", "f", "a", "i", "l", "e", "d">>) >> >>

\* Lines 101-102: the debug payload, when the debug mode is on and the verdict
\* has one.
DebugIfEnabled(result, debug_mode) ==
  IF debug_mode /\ "debug" \in result.keys THEN DebugLeaves("debug", result.debug) ELSE << >>

\* The endpoint that attaches the payload of the verdict whatever the debug mode.
oauth1_resource_always_debug(request, result, debug_mode) ==
  IF ~result.valid
  THEN [ status |-> 401,
         body |-> FailureLeaves(result)
                  \o (IF "debug" \in result.keys THEN DebugLeaves("debug", result.debug)
                      ELSE << >>) ]
  ELSE [ status |-> 200,
         body |-> << << << "status" >>, <<"s", "u", "c", "c", "e", "s", "s">> >>,
                     << << "message" >>, <<"O", "A", "u", "t", "h", "1", " ", "s", "i", "g", "n", "a", "t", "u", "r", "e", " ", "v", "a", "l", "i", "d">> >> >>
                  \o DictLeaves("oauth_params", ParamsOf(result))
                  \o << << << "request", "method" >>, request.method >>,
                        << << "request", "path" >>, request.path >> >>
                  \o QueryLeaves("request.query_params", request.args) ]

\* oauth1_resource(), lines 91-115, given the result of validate_request.
oauth1_resource(request, result, debug_mode) ==
  IF ~result.valid
  THEN [ status |-> 401,
         body |-> FailureLeaves(result) \o DebugIfEnabled(result, debug_mode) ]
  ELSE [ status |-> 200,
         body |-> << << << "status" >>, <<"s", "u", "c", "c", "e", "s", "s">> >>,
                     << << "message" >>, <<"O", "A", "u", "t", "h", "1", " ", "s", "i", "g", "n", "a", "t", "u", "r", "e", " ", "v", "a", "l", "i", "d">> >> >>
                  \o DictLeaves("oauth_params", ParamsOf(result))
                  \o << << << "request", "method" >>, request.method >>,
                        << << "request", "path" >>, request.path >> >>
                  \o QueryLeaves("request.query_params", request.args) ]

\* request.url: the URL as the server got it.
UrlOf(request) ==
  request.scheme \o <<":", "/", "/">> \o request.host \o request.path
    \o (IF request.query_string # << >> THEN << "?" >> \o request.query_string ELSE << >>)

\* oauth1_echo(), lines 124-154; the requests of the model carry no header but
\* Authorization and no body.
oauth1_echo(request, result, debug_mode) ==
  IF ~result.valid
  THEN [ status |-> 401,
         body |-> FailureLeaves(result) \o DictLeaves("oauth_params", ParamsOf(result))
                  \o DebugIfEnabled(result, debug_mode) ]
  ELSE [ status |-> 200,
         body |-> << << << "status" >>, <<"s", "u", "c", "c", "e", "s", "s">> >>,
                     << << "message" >>, <<"O", "A", "u", "t", "h", "1", " ", "s", "i", "g", "n", "a", "t", "u", "r", "e", " ", "v", "a", "l", "i", "d">> >> >>
                  \o DictLeaves("oauth_params", ParamsOf(result))
                  \o << << << "request", "method" >>, request.method >>,
                        << << "request", "path" >>, request.path >>,
                        << << "request", "url" >>, UrlOf(request) >> >>
                  \o QueryLeaves("request.query_params", request.args)
                  \o << << << "request", "content_type" >>, None >>,
                        << << "request", "content_length" >>, None >>,
                        << << "body_received" >>, None >> >> ]

\* Lines 200-205 with the consumer secret added to what the endpoint tells.
credentials_configured_with_secret(credentials) ==
  << << << "credentials_configured", "consumer_key" >>, credentials.consumer_key >>,
     << << "credentials_configured", "consumer_secret" >>, credentials.consumer_secret >>,
     << << "credentials_configured", "token_id" >>, credentials.token_id >>,
     << << "credentials_configured", "realm" >>, credentials.realm >>,
     << << "credentials_configured", "signature_methods" >>,
        Join(<<",">>, credentials.signature_methods) >> >>

\* Lines 200-205: what oauth1_debug tells of the credentials.
credentials_configured(credentials) ==
  << << << "credentials_configured", "consumer_key" >>, credentials.consumer_key >>,
     << << "credentials_configured", "token_id" >>, credentials.token_id >>,
     << << "credentials_configured", "realm" >>, credentials.realm >>,
     << << "credentials_configured", "signature_methods" >>,
        Join(<<",">>, credentials.signature_methods) >> >>

\* oauth1_debug(), lines 189-213, given the credentials it has read and the
\* result of its call of the validator.
oauth1_debug(request, credentials, result) ==
  [ status |-> IF result.valid THEN 200 ELSE 401,
    body |-> << << << "valid" >>, JsonBool(result.valid) >>,
                << << "error" >>, ErrorOf(result, None) >>,
                << << "message" >>, MessageOf(result, None) >> >>
             \o DictLeaves("oauth_params_received",
                           parse_authorization_header(request.authorization))
             \o DictLeaves("oauth_params_validated", ParamsOf(result))
             \o << << << "request", "method" >>, request.method >>,
                   << << "request", "url" >>, RequestUrl(request) >> >>
             \o QueryLeaves("request.query_params", request.args)
             \o credentials_configured(credentials)
             \o (IF "debug" \in result.keys THEN DebugLeaves("signature_debug", result.debug)
                 ELSE << >>) ]

\* The values uuid.uuid4() yields in the model.
Uuids == { <<"u", "-", "1">>, <<"u", "-", "2">> }

\* oauth1_data(), lines 222-250, with the value id of uuid.uuid4() and the clock
\* value created_at.
oauth1_data(result, id, created_at) ==
  IF ~result.valid
  THEN [ status |-> 401, body |-> FailureLeaves(result) ]
  ELSE [ status |-> 200,
         body |-> << << << "status" >>, <<"s", "u", "c", "c", "e", "s", "s">> >>,
                     << << "data", "id" >>, id >>,
                     << << "data", "name" >>, <<"T", "e", "s", "t", " ", "R", "e", "s", "o", "u", "r", "c", "e">> >>,
                     << << "data", "created_at" >>, IntToStr(created_at) >>,
                     << << "data", "items", "1" >>, <<"i", "t", "e", "m", "_", "1">> >>,
                     << << "data", "items", "2" >>, <<"i", "t", "e", "m", "_", "2">> >>,
                     << << "data", "items", "3" >>, <<"i", "t", "e", "m", "_", "3">> >>,
                     << << "authenticated_with", "consumer_key" >>,
                        DictGet(ParamsOf(result), <<"c", "o", "n", "s", "u", "m", "e", "r", "_", "k", "e", "y">>, None) >>,
                     << << "authenticated_with", "token" >>,
                        DictGet(ParamsOf(result), <<"t", "o", "k", "e", "n">>, None) >>,
                     << << "authenticated_with", "signature_method" >>,
                        DictGet(ParamsOf(result), <<"s", "i", "g", "n", "a", "t", "u", "r", "e", "_", "m", "e", "t", "h", "o", "d">>, None) >> >> ]

\* internal_error(): the answer to an exception that leaves a view function.
internal_error ==
  [ status |-> 500,
    body |-> << << << "status" >>, <<"e", "r", "r", "o", "r">> >>,
                << << "error" >>, <<"i", "n", "t", "e", "r", "n", "a", "l", "_", "e", "r", "r", "o", "r">> >>,
                << << "message" >>, <<"I", "n", "t", "e", "r", "n", "a", "l", " ", "s", "e", "r", "v", "e", "r", " ", "e", "r", "r", "o", "r">> >> >> ]

\* The response of an endpoint to the result of the validator: the answer of
\* the view function, or that of internal_error when the validator has raised.
Answer(endpoint, result, answered) ==
  [ endpoint |-> endpoint, result |-> result,
    status |-> IF result.raised # "" THEN internal_error.status ELSE answered.status,
    body |-> IF result.raised # "" THEN internal_error.body ELSE answered.body ]

\* The result of validate_request() for the request at the clock value now.
ResultOf(request) ==
  validate_request(request, get_credentials(environ), get_timestamp_tolerance(environ), now)

\* A request that departs by d from the well-formed one arrives at /oauth1/resource.
Resource(d) ==
  /\ response = NoResponse
  /\ response' = Answer("resource", ResultOf(RequestOf(Departed(d))),
                        oauth1_resource(RequestOf(Departed(d)), ResultOf(RequestOf(Departed(d))),
                                        is_debug_mode(environ)))
  /\ UNCHANGED << environ, now, phase, call, verdict, remembered, workers, probe, tokens, oauth2 >>

\* A request arrives at /oauth1/echo.
Echo(d) ==
  /\ response = NoResponse
  /\ response' = Answer("echo", ResultOf(RequestOf(Departed(d))),
                        oauth1_echo(RequestOf(Departed(d)), ResultOf(RequestOf(Departed(d))),
                                    is_debug_mode(environ)))
  /\ UNCHANGED << environ, now, phase, call, verdict, remembered, workers, probe, tokens, oauth2 >>

\* A request arrives at /oauth1/debug.
Debug(d) ==
  /\ response = NoResponse
  /\ response' = Answer("debug", ResultOf(RequestOf(Departed(d))),
                        oauth1_debug(RequestOf(Departed(d)), get_credentials(environ),
                                     ResultOf(RequestOf(Departed(d)))))
  /\ UNCHANGED << environ, now, phase, call, verdict, remembered, workers, probe, tokens, oauth2 >>

\* A request arrives at /oauth1/data.
Data(d, id) ==
  /\ response = NoResponse
  /\ response' = Answer("data", ResultOf(RequestOf(Departed(d))),
                        oauth1_data(ResultOf(RequestOf(Departed(d))), id, now))
  /\ UNCHANGED << environ, now, phase, call, verdict, remembered, workers, probe, tokens, oauth2 >>

\* The response has gone to the client.
Sent ==
  /\ response # NoResponse
  /\ response' = NoResponse
  /\ UNCHANGED << environ, now, phase, call, verdict, remembered, workers, probe, tokens, oauth2 >>

InitHttp ==
  /\ environ \in HttpEnvirons
  /\ now = ClockStart
  /\ phase = "idle"
  /\ call = NoCall
  /\ verdict = NoVerdict
  /\ remembered = NoMemory
  /\ workers = [ t \in Threads |-> IdleWorker ]
  /\ response = NoResponse
  /\ probe = NoProbe
  /\ tokens = EmptyDict
  /\ oauth2 = Started

NextHttp ==
  \/ Tick
  \/ \E d \in Deviations : Resource(d)
  \/ \E d \in Deviations : Echo(d)
  \/ \E d \in Deviations : Debug(d)
  \/ \E d \in Deviations, id \in Uuids : Data(d, id)
  \/ Sent

SpecHttp == InitHttp /\ [][NextHttp]_vars

(***************************************************************************)
(* The functions of the validator applied on their own                     *)
(***************************************************************************)

\* The names and the values of the parameter mappings that are serialised.
ParamKeys == { <<"a">>, <<"o", "a", "u", "t", "h", "_", "n", "o", "n", "c", "e">>, <<"x", "-", "y">>, << EAcute >>, << >> }
ParamValues ==
  { << >>, <<"v">>, <<"a", " ", "b">>, << "\"" >>, <<"%", "4", "1">>, << EAcute >>, <<"a", "=", "b", ",", " ", "c", "=", "\"", "d", "\"">> }

\* The parameter mappings of up to two names.
Mappings ==
  { << >> }
  \cup { << << k, v >> >> : k \in ParamKeys, v \in ParamValues }
  \cup { m \in { << << k1, v1 >>, << k2, v2 >> >> :
                      k1 \in ParamKeys, v1 \in ParamValues,
                      k2 \in ParamKeys, v2 \in ParamValues } : m[1][1] # m[2][1] }

\* The header of a parameter mapping: "OAuth " and the pairs name="value" with
\* the values percent-encoded, separated by a comma and a space.
Serialize(mapping) ==
  <<"O", "A", "u", "t", "h", " ">>
  \o Join(<<",", " ">>,
          [ i \in 1..Len(mapping) |->
              mapping[i][1] \o << "=", "\"" >> \o percent_encode(mapping[i][2]) \o << "\"" >> ])

\* parse_authorization_header is applied to the header of a mapping.
ParseSerialized(mapping) ==
  /\ probe.op = ""
  /\ probe' = [ op |-> "parse", input |-> mapping,
                output |-> parse_authorization_header(Serialize(mapping)) ]
  /\ UNCHANGED << environ, now, phase, call, verdict, remembered, workers, response, tokens, oauth2 >>

\* The URLs normalize_url is applied to, by their components.
Urls ==
  [ scheme : { <<"h", "t", "t", "p">>, <<"H", "T", "T", "P">>, <<"h", "t", "t", "p", "s">> },
    host : { <<"a", ".", "b">>, <<"A", ".", "b">> },
    port : { None, <<"8", "0">>, <<"4", "4", "3">>, <<"8", "1">>, <<"0">>, <<"6", "5", "5", "3", "6">> },
    path : { << >>, <<"/", "r">>, <<"/", "r", ";", "p">> },
    query_string : { << >>, <<"a", "=", "1">> } ]

\* normalize_url is applied to the text of a URL.
NormalizeUrlOf(c) ==
  /\ probe.op = ""
  /\ probe' = [ op |-> "normalize_url", input |-> c, output |-> normalize_url(UrlText(c)) ]
  /\ UNCHANGED << environ, now, phase, call, verdict, remembered, workers, response, tokens, oauth2 >>

\* The characters of the strings percent_encode is applied to.
EncodedChars == { "A", "z", "0", "9", "-", "_", ".", "~", " ", "%", "/", "+", "=", EAcute }

MaxEncoded == 2

\* The strings of up to MaxEncoded characters.
EncodedStrings == UNION { [ 1..n -> EncodedChars ] : n \in 0..MaxEncoded }

\* percent_encode is applied to a string.
PercentEncodeOf(value) ==
  /\ probe.op = ""
  /\ probe' = [ op |-> "percent_encode", input |-> value, output |-> percent_encode(value) ]
  /\ UNCHANGED << environ, now, phase, call, verdict, remembered, workers, response, tokens, oauth2 >>

\* The result has been taken.
Taken ==
  /\ probe.op # ""
  /\ probe' = NoProbe
  /\ UNCHANGED << environ, now, phase, call, verdict, remembered, workers, response, tokens, oauth2 >>

NextPure ==
  \/ \E mapping \in Mappings : ParseSerialized(mapping)
  \/ \E c \in Urls : NormalizeUrlOf(c)
  \/ \E value \in EncodedStrings : PercentEncodeOf(value)
  \/ Taken

SpecPure == Init /\ [][NextPure]_vars

(***************************************************************************)
(* The mock OAuth 2.0 server (mock-oauth-server/app.py)                    *)
(***************************************************************************)

CLIENTS == << << <<"t", "e", "s", "t", "_", "c", "l", "i", "e", "n", "t", "_", "1">>, <<"t", "e", "s", "t", "_", "s", "e", "c", "r", "e", "t", "_", "1">> >> >>

USERS == << << <<"t", "e", "s", "t", "_", "u", "s", "e", "r">>, <<"t", "e", "s", "t", "_", "p", "a", "s", "s", "w", "o", "r", "d">> >> >>

\* The seconds a stored token lives: "expires_in": 3600.
ExpiresIn == 3600

\* base64: the encoded texts of the model, each one character, with what they
\* decode to; any other text is no base64 of UTF-8 text.
Base64Texts ==
  << << "b64(test_client_1:test_secret_1)", <<"t", "e", "s", "t", "_", "c", "l", "i", "e", "n", "t", "_", "1", ":", "t", "e", "s", "t", "_", "s", "e", "c", "r", "e", "t", "_", "1">> >>,
     << "b64(test_client_1:nope)", <<"t", "e", "s", "t", "_", "c", "l", "i", "e", "n", "t", "_", "1", ":", "n", "o", "p", "e">> >>,
     << "b64(test_client_1)", <<"t", "e", "s", "t", "_", "c", "l", "i", "e", "n", "t", "_", "1">> >> >>

\* base64.b64decode(text).decode('utf-8'); RaisedValueError where it raises.
b64decode(text) ==
  IF Len(text) = 1 /\ HasKey(Base64Texts, text[1]) THEN DictGet(Base64Texts, text[1], None)
  ELSE RaisedValueError

\* The client of a Basic header is known: the decoded text splits at its first
\* ':' into a client of CLIENTS and its secret (an exception is passed over).
BasicClientKnown(auth_header) ==
  LET credentials == b64decode(From(auth_header, 7))
  IN  /\ ~IsRaised(credentials)
      /\ Contains(credentials, ":")
      /\ HasKey(CLIENTS, Before(credentials, ":"))
      /\ DictGet(CLIENTS, Before(credentials, ":"), None) = After(credentials, ":")

\* validate_client_credentials(): the client id, None when authentication fails.
validate_client_credentials(request) ==
  IF /\ Truthy(request.authorization)
     /\ StartsWith(request.authorization, <<"B", "a", "s", "i", "c", " ">>)
     /\ BasicClientKnown(request.authorization)
  THEN Before(b64decode(From(request.authorization, 7)), ":")
  ELSE LET client_id == DictGet(request.form, <<"c", "l", "i", "e", "n", "t", "_", "i", "d">>, None)
           client_secret == DictGet(request.form, <<"c", "l", "i", "e", "n", "t", "_", "s", "e", "c", "r", "e", "t">>, None)
       IN  IF /\ Truthy(client_id) /\ Truthy(client_secret)
              /\ HasKey(CLIENTS, client_id)
              /\ DictGet(CLIENTS, client_id, None) = client_secret
           THEN client_id
           ELSE None

\* uuid.uuid4().hex of the n-th uuid drawn.
Uuid4Hex(n) == NatToStr(n)

\* An error reply.
ErrorReply(status, error) ==
  [ status |-> status, error |-> error, access_token |-> None, refresh_token |-> None,
    expires_in |-> 0 ]

\* A reply with a token.
TokenReply(access_token, refresh_token, expires_in) ==
  [ status |-> 200, error |-> "", access_token |-> access_token,
    refresh_token |-> refresh_token, expires_in |-> expires_in ]

\* What a handler does: its reply, the storage it leaves, the uuids it has drawn
\* and the seconds it has slept.
Outcome(reply, storage, drawn, slept) ==
  [ reply |-> reply, tokens |-> storage, drawn |-> drawn, slept |-> slept ]

\* token(): POST /v1/oauth/tokens, the storage being storage, the next uuid
\* being the one after uuids, and time.time() yielding time_now.
token(request, storage, uuids, time_now) ==
  LET client_id == validate_client_credentials(request)
      grant_type == DictGet(request.form, <<"g", "r", "a", "n", "t", "_", "t", "y", "p", "e">>, None)
      username == DictGet(request.form, <<"u", "s", "e", "r", "n", "a", "m", "e">>, None)
      password == DictGet(request.form, <<"p", "a", "s", "s", "w", "o", "r", "d">>, None)
      access_token == <<"m", "o", "c", "k", "_", "a", "c", "c", "e", "s", "s", "_", "t", "o", "k", "e", "n", "_">> \o Uuid4Hex(uuids + 1)
  IN  IF ~Truthy(client_id) THEN Outcome(ErrorReply(401, "invalid_client"), storage, 0, 0)
      ELSE IF ~Truthy(grant_type) THEN Outcome(ErrorReply(400, "invalid_request"), storage, 0, 0)
      ELSE IF grant_type = <<"p", "a", "s", "s", "w", "o", "r", "d">>
      THEN IF ~Truthy(username) \/ ~Truthy(password)
           THEN Outcome(ErrorReply(400, "invalid_request"), storage, 0, 0)
           ELSE IF ~HasKey(USERS, username) \/ DictGet(USERS, username, None) # password
           THEN Outcome(ErrorReply(400, "invalid_grant"), storage, 0, 0)
           ELSE Outcome(TokenReply(access_token,
                                   <<"m", "o", "c", "k", "_", "r", "e", "f", "r", "e", "s", "h", "_", "t", "o", "k", "e", "n", "_">> \o Uuid4Hex(uuids + 2), ExpiresIn),
                        DictSet(storage, access_token,
                                [ client_id |-> client_id, username |-> username,
                                  scope |-> DictGet(request.form, <<"s", "c", "o", "p", "e">>, <<"r", "e", "a", "d", " ", "w", "r", "i", "t", "e">>),
                                  created_at |-> time_now, expires_in |-> ExpiresIn ]),
                        2, 0)
      ELSE IF grant_type = <<"c", "l", "i", "e", "n", "t", "_", "c", "r", "e", "d", "e", "n", "t", "i", "a", "l", "s">>
      THEN Outcome(TokenReply(access_token, None, ExpiresIn),
                   DictSet(storage, access_token,
                           [ client_id |-> client_id, username |-> None,
                             scope |-> DictGet(request.form, <<"s", "c", "o", "p", "e">>, <<"r", "e", "a", "d">>),
                             created_at |-> time_now, expires_in |-> ExpiresIn ]),
                   1, 0)
      ELSE Outcome(ErrorReply(400, "unsupported_grant_type"), storage, 0, 0)

\* get_users() with a test of the age that lets a token live one second less.
get_users_expiring_early(request, storage, time_now) ==
  IF ~Truthy(request.authorization) \/ ~StartsWith(request.authorization, <<"B", "e", "a", "r", "e", "r", " ">>)
  THEN ErrorReply(401, "unauthorized")
  ELSE IF ~HasKey(storage, From(request.authorization, 8)) THEN ErrorReply(401, "invalid_token")
  ELSE LET token_info == DictGet(storage, From(request.authorization, 8), None)
       IN  IF time_now - token_info.created_at >= token_info.expires_in
           THEN ErrorReply(401, "token_expired")
           ELSE TokenReply(None, None, 0)

\* get_users(): GET /v1/users.  The reply with status 200 carries no token.
get_users(request, storage, time_now) ==
  IF ~Truthy(request.authorization) \/ ~StartsWith(request.authorization, <<"B", "e", "a", "r", "e", "r", " ">>)
  THEN ErrorReply(401, "unauthorized")
  ELSE IF ~HasKey(storage, From(request.authorization, 8)) THEN ErrorReply(401, "invalid_token")
  ELSE LET token_info == DictGet(storage, From(request.authorization, 8), None)
       IN  IF time_now - token_info.created_at > token_info.expires_in
           THEN ErrorReply(401, "token_expired")
           ELSE TokenReply(None, None, 0)

\* get_data(): GET /v1/data.
get_data(request, storage, time_now) ==
  IF ~Truthy(request.authorization) \/ ~StartsWith(request.authorization, <<"B", "e", "a", "r", "e", "r", " ">>)
  THEN ErrorReply(401, "unauthorized")
  ELSE IF ~HasKey(storage, From(request.authorization, 8)) THEN ErrorReply(401, "invalid_token")
  ELSE LET token_info == DictGet(storage, From(request.authorization, 8), None)
       IN  IF time_now - token_info.created_at > token_info.expires_in
           THEN ErrorReply(401, "token_expired")
           ELSE TokenReply(None, None, 0)

\* A handler that raises is answered with 500 by Flask.
Raised500 == ErrorReply(500, "Internal Server Error")

\* The reply of the endpoints that make a token and do not store it.
Unstored(request, storage, uuids, prefix, expires_in) ==
  Outcome(TokenReply(prefix \o Uuid4Hex(uuids + 1), None, expires_in), storage, 1, 0)

\* inspect_auth(): POST /v1/oauth/inspect-auth.
inspect_auth(request, storage, uuids, time_now) ==
  IF ~Truthy(validate_client_credentials(request))
  THEN Outcome(ErrorReply(401, "invalid_client"), storage, 0, 0)
  ELSE Unstored(request, storage, uuids, <<"m", "o", "c", "k", "_", "a", "c", "c", "e", "s", "s", "_", "t", "o", "k", "e", "n", "_">>, ExpiresIn)

\* int(request.args.get(name, default)) of a query parameter: the value, or
\* raised where int() raises ValueError.
IntArg(request, name, default) ==
  IF ~HasKey(request.args, name) THEN [ raised |-> FALSE, value |-> default ]
  ELSE IF IntParses(DictGet(request.args, name, None))
  THEN [ raised |-> FALSE, value |-> IntValue(DictGet(request.args, name, None)) ]
  ELSE [ raised |-> TRUE, value |-> 0 ]

\* custom_token_response(): POST /v1/oauth/custom-response.  An expires_in that
\* is no number is 3600; expires_in is left out (0 here) when omit_expires_in=true.
custom_token_response(request, storage, uuids, time_now) ==
  IF ~Truthy(validate_client_credentials(request))
  THEN Outcome(ErrorReply(401, "invalid_client"), storage, 0, 0)
  ELSE Unstored(request, storage, uuids, <<"m", "o", "c", "k", "_", "a", "c", "c", "e", "s", "s", "_", "t", "o", "k", "e", "n", "_">>,
                IF DictGet(request.args, <<"o", "m", "i", "t", "_", "e", "x", "p", "i", "r", "e", "s", "_", "i", "n">>, None) = <<"t", "r", "u", "e">> THEN 0
                ELSE IF IntArg(request, <<"e", "x", "p", "i", "r", "e", "s", "_", "i", "n">>, ExpiresIn).raised THEN ExpiresIn
                ELSE IntArg(request, <<"e", "x", "p", "i", "r", "e", "s", "_", "i", "n">>, ExpiresIn).value)

\* slow_token(): POST /v1/oauth/slow.  It sleeps delay seconds (35 when not
\* given) before it looks at the client; int() and sleep() of a negative number
\* raise.
slow_token(request, storage, uuids, time_now) ==
  LET delay == IntArg(request, <<"d", "e", "l", "a", "y">>, 35)
  IN  IF delay.raised \/ delay.value < 0 THEN Outcome(Raised500, storage, 0, 0)
      ELSE IF ~Truthy(validate_client_credentials(request))
      THEN Outcome(ErrorReply(401, "invalid_client"), storage, 0, delay.value)
      ELSE [ Unstored(request, storage, uuids, <<"m", "o", "c", "k", "_", "a", "c", "c", "e", "s", "s", "_", "t", "o", "k", "e", "n", "_">>, ExpiresIn)
               EXCEPT !.slept = delay.value ]

\* not value or value.strip() == ''
Blank(value) == ~Truthy(value) \/ LStrip(RStrip(value)) = << >>

\* token_strict(): POST /v1/oauth/tokens-strict.
token_strict(request, storage, uuids, time_now) ==
  LET grant_type == DictGet(request.form, <<"g", "r", "a", "n", "t", "_", "t", "y", "p", "e">>, None)
      username == DictGet(request.form, <<"u", "s", "e", "r", "n", "a", "m", "e">>, None)
      password == DictGet(request.form, <<"p", "a", "s", "s", "w", "o", "r", "d">>, None)
      minted == Unstored(request, storage, uuids, <<"m", "o", "c", "k", "_", "a", "c", "c", "e", "s", "s", "_", "t", "o", "k", "e", "n", "_">>, ExpiresIn)
  IN  IF ~Truthy(validate_client_credentials(request))
      THEN Outcome(ErrorReply(401, "invalid_client"), storage, 0, 0)
      ELSE IF ~Truthy(grant_type) THEN Outcome(ErrorReply(400, "invalid_request"), storage, 0, 0)
      ELSE IF grant_type = <<"p", "a", "s", "s", "w", "o", "r", "d">>
      THEN IF Blank(username) \/ Blank(password)
           THEN Outcome(ErrorReply(400, "invalid_request"), storage, 0, 0)
           ELSE IF ~HasKey(USERS, username) \/ DictGet(USERS, username, None) # password
           THEN Outcome(ErrorReply(400, "invalid_grant"), storage, 0, 0)
           ELSE minted
      ELSE IF grant_type = <<"c", "l", "i", "e", "n", "t", "_", "c", "r", "e", "d", "e", "n", "t", "i", "a", "l", "s">> THEN minted
      ELSE IF grant_type = <<"a", "u", "t", "h", "o", "r", "i", "z", "a", "t", "i", "o", "n", "_", "c", "o", "d", "e">>
      THEN IF Blank(DictGet(request.form, <<"c", "o", "d", "e">>, None))
              \/ Blank(DictGet(request.form, <<"r", "e", "d", "i", "r", "e", "c", "t", "_", "u", "r", "i">>, None))
           THEN Outcome(ErrorReply(400, "invalid_request"), storage, 0, 0)
           ELSE minted
      ELSE IF grant_type = <<"r", "e", "f", "r", "e", "s", "h", "_", "t", "o", "k", "e", "n">>
      THEN IF Blank(DictGet(request.form, <<"r", "e", "f", "r", "e", "s", "h", "_", "t", "o", "k", "e", "n">>, None))
           THEN Outcome(ErrorReply(400, "invalid_request"), storage, 0, 0)
           ELSE [ minted EXCEPT !.reply.refresh_token = <<"m", "o", "c", "k", "_", "r", "e", "f", "r", "e", "s", "h", "_", "t", "o", "k", "e", "n", "_">> \o Uuid4Hex(uuids + 2),
                                !.drawn = 2 ]
      ELSE Outcome(ErrorReply(400, "unsupported_grant_type"), storage, 0, 0)

\* token_short_expiry(): POST /v1/oauth/tokens-short-expiry.
token_short_expiry(request, storage, uuids, time_now) ==
  IF ~Truthy(validate_client_credentials(request))
  THEN Outcome(ErrorReply(401, "invalid_client"), storage, 0, 0)
  ELSE IF IntArg(request, <<"e", "x", "p", "i", "r", "e", "s", "_", "i", "n">>, 2).raised THEN Outcome(Raised500, storage, 0, 0)
  ELSE Unstored(request, storage, uuids, <<"m", "o", "c", "k", "_", "s", "h", "o", "r", "t", "_", "t", "o", "k", "e", "n", "_">>,
                IntArg(request, <<"e", "x", "p", "i", "r", "e", "s", "_", "i", "n">>, 2).value)

(***************************************************************************)
(* The requests the OAuth 2.0 server gets                                  *)
(***************************************************************************)

\* The uuids the server draws in a run of the model.
MaxUuids == 2

\* The values of time.time() in a run of the model.
ClockValues == { 0, 1, 36, ExpiresIn, ExpiresIn + 1 }

\* The Authorization headers of the requests for a token.
ClientHeaders ==
  { None,
    <<"B", "a", "s", "i", "c", " ">> \o << "b64(test_client_1:test_secret_1)" >>,
    <<"B", "a", "s", "i", "c", " ">> \o << "b64(test_client_1:nope)" >>,
    <<"B", "a", "s", "i", "c", " ">> \o << "b64(test_client_1)" >>,
    <<"B", "a", "s", "i", "c", " ", "!">> }

ClientInForm == << << <<"c", "l", "i", "e", "n", "t", "_", "i", "d">>, <<"t", "e", "s", "t", "_", "c", "l", "i", "e", "n", "t", "_", "1">> >>, << <<"c", "l", "i", "e", "n", "t", "_", "s", "e", "c", "r", "e", "t">>, <<"t", "e", "s", "t", "_", "s", "e", "c", "r", "e", "t", "_", "1">> >> >>

\* The form bodies of the requests for a token.
Forms ==
  { EmptyDict,
    << << <<"g", "r", "a", "n", "t", "_", "t", "y", "p", "e">>, <<"c", "l", "i", "e", "n", "t", "_", "c", "r", "e", "d", "e", "n", "t", "i", "a", "l", "s">> >> >>,
    ClientInForm \o << << <<"g", "r", "a", "n", "t", "_", "t", "y", "p", "e">>, <<"c", "l", "i", "e", "n", "t", "_", "c", "r", "e", "d", "e", "n", "t", "i", "a", "l", "s">> >> >>,
    << << <<"c", "l", "i", "e", "n", "t", "_", "i", "d">>, <<"t", "e", "s", "t", "_", "c", "l", "i", "e", "n", "t", "_", "1">> >>, << <<"c", "l", "i", "e", "n", "t", "_", "s", "e", "c", "r", "e", "t">>, <<"n", "o", "p", "e">> >>,
       << <<"g", "r", "a", "n", "t", "_", "t", "y", "p", "e">>, <<"c", "l", "i", "e", "n", "t", "_", "c", "r", "e", "d", "e", "n", "t", "i", "a", "l", "s">> >> >>,
    << << <<"g", "r", "a", "n", "t", "_", "t", "y", "p", "e">>, <<"p", "a", "s", "s", "w", "o", "r", "d">> >>, << <<"u", "s", "e", "r", "n", "a", "m", "e">>, <<"t", "e", "s", "t", "_", "u", "s", "e", "r">> >>,
       << <<"p", "a", "s", "s", "w", "o", "r", "d">>, <<"t", "e", "s", "t", "_", "p", "a", "s", "s", "w", "o", "r", "d">> >> >>,
    << << <<"g", "r", "a", "n", "t", "_", "t", "y", "p", "e">>, <<"p", "a", "s", "s", "w", "o", "r", "d">> >>, << <<"u", "s", "e", "r", "n", "a", "m", "e">>, <<"t", "e", "s", "t", "_", "u", "s", "e", "r">> >>,
       << <<"p", "a", "s", "s", "w", "o", "r", "d">>, <<"n", "o", "p", "e">> >> >>,
    << << <<"g", "r", "a", "n", "t", "_", "t", "y", "p", "e">>, <<"p", "a", "s", "s", "w", "o", "r", "d">> >>, << <<"u", "s", "e", "r", "n", "a", "m", "e">>, <<" ">> >>,
       << <<"p", "a", "s", "s", "w", "o", "r", "d">>, <<"t", "e", "s", "t", "_", "p", "a", "s", "s", "w", "o", "r", "d">> >> >>,
    << << <<"g", "r", "a", "n", "t", "_", "t", "y", "p", "e">>, <<"p", "a", "s", "s", "w", "o", "r", "d">> >> >>,
    << << <<"g", "r", "a", "n", "t", "_", "t", "y", "p", "e">>, <<"a", "u", "t", "h", "o", "r", "i", "z", "a", "t", "i", "o", "n", "_", "c", "o", "d", "e">> >>, << <<"c", "o", "d", "e">>, <<"c">> >>,
       << <<"r", "e", "d", "i", "r", "e", "c", "t", "_", "u", "r", "i">>, <<"u">> >> >>,
    << << <<"g", "r", "a", "n", "t", "_", "t", "y", "p", "e">>, <<"r", "e", "f", "r", "e", "s", "h", "_", "t", "o", "k", "e", "n">> >>, << <<"r", "e", "f", "r", "e", "s", "h", "_", "t", "o", "k", "e", "n">>, <<"m", "o", "c", "k", "_", "r", "e", "f", "r", "e", "s", "h", "_", "t", "o", "k", "e", "n", "_", "2">> >> >>,
    << << <<"g", "r", "a", "n", "t", "_", "t", "y", "p", "e">>, <<"r", "e", "f", "r", "e", "s", "h", "_", "t", "o", "k", "e", "n">> >> >>,
    << << <<"g", "r", "a", "n", "t", "_", "t", "y", "p", "e">>, <<"i", "m", "p", "l", "i", "c", "i", "t">> >> >> }

\* The query strings of the requests for a token.
Queries ==
  { EmptyDict,
    << << <<"e", "x", "p", "i", "r", "e", "s", "_", "i", "n">>, <<"7">> >> >>,
    << << <<"e", "x", "p", "i", "r", "e", "s", "_", "i", "n">>, <<"x">> >> >>,
    << << <<"o", "m", "i", "t", "_", "e", "x", "p", "i", "r", "e", "s", "_", "i", "n">>, <<"t", "r", "u", "e">> >> >>,
    << << <<"d", "e", "l", "a", "y">>, <<"0">> >> >>,
    << << <<"d", "e", "l", "a", "y">>, <<"1">> >> >>,
    << << <<"d", "e", "l", "a", "y">>, <<"-", "1">> >> >> }

GoodHeader == <<"B", "a", "s", "i", "c", " ">> \o << "b64(test_client_1:test_secret_1)" >>

ClientCredentialsGrant == << << <<"g", "r", "a", "n", "t", "_", "t", "y", "p", "e">>, <<"c", "l", "i", "e", "n", "t", "_", "c", "r", "e", "d", "e", "n", "t", "i", "a", "l", "s">> >> >>

\* The requests for a token: every form of a known client, every header and
\* every query string with the client credentials grant.
TokenRequests ==
  { [ authorization |-> GoodHeader, form |-> f, args |-> EmptyDict ] : f \in Forms }
  \cup { [ authorization |-> h, form |-> f, args |-> EmptyDict ] :
           h \in ClientHeaders, f \in { ClientCredentialsGrant, ClientInForm \o ClientCredentialsGrant } }
  \cup { [ authorization |-> GoodHeader, form |-> ClientCredentialsGrant, args |-> q ] :
           q \in Queries }

\* The endpoints that make a token without storing it.
Elsewhere ==
  { "inspect-auth", "custom-response", "slow", "tokens-strict", "tokens-short-expiry" }

\* The handler of an endpoint of Elsewhere.
HandlerOf(endpoint, request, storage, uuids, time_now) ==
  CASE endpoint = "inspect-auth" -> inspect_auth(request, storage, uuids, time_now)
    [] endpoint = "custom-response" -> custom_token_response(request, storage, uuids, time_now)
    [] endpoint = "slow" -> slow_token(request, storage, uuids, time_now)
    [] endpoint = "tokens-strict" -> token_strict(request, storage, uuids, time_now)
    [] endpoint = "tokens-short-expiry" -> token_short_expiry(request, storage, uuids, time_now)

\* The tokens the server has sent, stored or not.
SentTokens ==
  { oauth2.issued[i].access_token : i \in 1..Len(oauth2.issued) } \cup oauth2.minted

\* The Authorization headers of the requests to /v1/users and /v1/data: none,
\* one of another scheme, and Bearer with a token the server has sent, with a
\* token it has not, and with none.
BearerHeaders ==
  { None, <<"B", "a", "s", "i", "c", " ", "!">>, <<"B", "e", "a", "r", "e", "r", " ">>, <<"B", "e", "a", "r", "e", "r", " ", "m", "o", "c", "k", "_", "a", "c", "c", "e", "s", "s", "_", "t", "o", "k", "e", "n", "_", "9">> }
  \cup { <<"B", "e", "a", "r", "e", "r", " ">> \o t : t \in SentTokens }
  \cup { <<"b", "e", "a", "r", "e", "r", " ", "m", "o", "c", "k", "_", "a", "c", "c", "e", "s", "s", "_", "t", "o", "k", "e", "n", "_", "1">>, <<"B", "e", "a", "r", "e", "r", " ", " ", "m", "o", "c", "k", "_", "a", "c", "c", "e", "s", "s", "_", "t", "o", "k", "e", "n", "_", "1">> }

\* The server after the handler of endpoint has answered the request with outcome.
Served(endpoint, request, outcome) ==
  [ oauth2 EXCEPT
      !.time = oauth2.time + outcome.slept,
      !.uuids = oauth2.uuids + outcome.drawn,
      !.issued =
         IF endpoint = "tokens" /\ outcome.reply.status = 200
         THEN Append(oauth2.issued,
                     [ access_token |-> outcome.reply.access_token, at |-> oauth2.time ])
         ELSE oauth2.issued,
      !.minted =
         oauth2.minted
         \cup (IF endpoint # "tokens" /\ Truthy(outcome.reply.access_token)
               THEN { outcome.reply.access_token } ELSE {})
         \cup (IF Truthy(outcome.reply.refresh_token)
               THEN { outcome.reply.refresh_token } ELSE {}),
      !.reply = [ endpoint |-> endpoint, authorization |-> request.authorization,
                  at |-> oauth2.time, status |-> outcome.reply.status,
                  error |-> outcome.reply.error,
                  access_token |-> outcome.reply.access_token,
                  refresh_token |-> outcome.reply.refresh_token ] ]

\* The last reply has been read, and the handler draws uuids the run has left
\* and sleeps to a clock value of the run.
InRun(outcome) ==
  /\ oauth2.reply = NoReply
  /\ oauth2.uuids + outcome.drawn <= MaxUuids
  /\ oauth2.time + outcome.slept \in ClockValues

\* POST /v1/oauth/tokens.
Token(request) ==
  LET outcome == token(request, tokens, oauth2.uuids, oauth2.time)
  IN  /\ InRun(outcome)
      /\ tokens' = outcome.tokens
      /\ oauth2' = Served("tokens", request, outcome)
      /\ UNCHANGED << environ, now, phase, call, verdict, remembered, workers, response, probe >>

\* POST to an endpoint that makes a token without storing it.
TokenElsewhere(endpoint, request) ==
  LET outcome == HandlerOf(endpoint, request, tokens, oauth2.uuids, oauth2.time)
  IN  /\ InRun(outcome)
      /\ tokens' = outcome.tokens
      /\ oauth2' = Served(endpoint, request, outcome)
      /\ UNCHANGED << environ, now, phase, call, verdict, remembered, workers, response, probe >>

\* GET /v1/users.
GetUsers(authorization) ==
  LET request == [ authorization |-> authorization, form |-> EmptyDict, args |-> EmptyDict ]
  IN  /\ oauth2.reply = NoReply
      /\ oauth2' = Served("users", request,
                          Outcome(get_users(request, tokens, oauth2.time), tokens, 0, 0))
      /\ UNCHANGED << environ, now, phase, call, verdict, remembered, workers, response, probe,
                      tokens >>

\* GET /v1/data.
GetData(authorization) ==
  LET request == [ authorization |-> authorization, form |-> EmptyDict, args |-> EmptyDict ]
  IN  /\ oauth2.reply = NoReply
      /\ oauth2' = Served("data", request,
                          Outcome(get_data(request, tokens, oauth2.time), tokens, 0, 0))
      /\ UNCHANGED << environ, now, phase, call, verdict, remembered, workers, response, probe,
                      tokens >>

\* Time passes between two requests.
Elapse(time_now) ==
  /\ oauth2.reply = NoReply
  /\ time_now \in ClockValues
  /\ time_now > oauth2.time
  /\ oauth2' = [ oauth2 EXCEPT !.time = time_now ]
  /\ UNCHANGED << environ, now, phase, call, verdict, remembered, workers, response, probe,
                  tokens >>

\* The client has read the reply.
Read ==
  /\ oauth2.reply # NoReply
  /\ oauth2' = [ oauth2 EXCEPT !.reply = NoReply ]
  /\ UNCHANGED << environ, now, phase, call, verdict, remembered, workers, response, probe,
                  tokens >>

InitTokens ==
  /\ environ = BaseEnviron
  /\ now = ClockStart
  /\ phase = "idle"
  /\ call = NoCall
  /\ verdict = NoVerdict
  /\ remembered = NoMemory
  /\ workers = [ t \in Threads |-> IdleWorker ]
  /\ response = NoResponse
  /\ probe = NoProbe
  /\ tokens = EmptyDict
  /\ oauth2 = Started

NextTokens ==
  \/ \E request \in TokenRequests : Token(request)
  \/ \E endpoint \in Elsewhere, request \in TokenRequests : TokenElsewhere(endpoint, request)
  \/ \E authorization \in BearerHeaders : GetUsers(authorization)
  \/ \E authorization \in BearerHeaders : GetData(authorization)
  \/ \E time_now \in ClockValues : Elapse(time_now)
  \/ Read

SpecTokens == InitTokens /\ [][NextTokens]_vars

(***************************************************************************)
(* What a returned call is measured against                                *)
(***************************************************************************)

\* A call of the validator has returned or raised, and the caller holds the outcome.
Returned == phase = "returned"

\* The credentials and the tolerance of the process.
Credentials == get_credentials(environ)
Tolerance == get_timestamp_tolerance(environ)

\* The parameter set of the header of the call.
HeaderParams == parse_authorization_header(call.args.auth_header)

\* The signature the code computes for the arguments of the call whose header
\* holds the values p at the normalised URL base_url, a raised marker where the
\* query loop, normalize_url or generate_signature raises.
RecomputedAt(p, base_url) ==
  IF QueryRaises(call.args.query_params) THEN RaisedIndexError
  ELSE IF IsRaised(base_url) THEN RaisedValueError
  ELSE generate_signature(
         generate_signature_base_string(call.args.http_method, base_url,
                                        SigParams(p, call.args.query_params)),
         Credentials.consumer_secret, Credentials.token_secret, p.signature_method)

Recomputed(p) == RecomputedAt(p, normalize_url(call.args.request_url))

\* The error codes in the order of the checks.
GateOrder ==
  << "missing_authorization", "missing_parameters", "invalid_consumer_key",
     "invalid_token", "invalid_realm", "invalid_signature_method", "invalid_timestamp",
     "expired_timestamp", "invalid_signature" >>

\* The codes of the checks that come before the check of the timestamp.
BeforeTimestamp == { GateOrder[i] : i \in 1..6 }

\* The checks violated by the call whose header holds the parameter set
\* oauth_params with the values p and whose signature is recomputed as expected,
\* each check taken on its own.
Violated(oauth_params, p, expected) ==
  { code \in { GateOrder[i] : i \in DOMAIN GateOrder } :
      CASE code = "missing_authorization" -> oauth_params = EmptyDict
        [] code = "missing_parameters" ->
             \E v \in { p.consumer_key, p.token, p.timestamp, p.nonce, p.signature } :
                ~Truthy(v)
        [] code = "invalid_consumer_key" -> p.consumer_key # Credentials.consumer_key
        [] code = "invalid_token" -> p.token # Credentials.token_id
        [] code = "invalid_realm" ->
             Truthy(Credentials.realm) /\ p.realm # Credentials.realm
        [] code = "invalid_signature_method" ->
             \A i \in DOMAIN Credentials.signature_methods :
                Credentials.signature_methods[i] # p.signature_method
        [] code = "invalid_timestamp" -> ~IntParses(p.timestamp)
        [] code = "expired_timestamp" ->
             IntParses(p.timestamp) /\ Abs(call.time - IntValue(p.timestamp)) > Tolerance
        [] code = "invalid_signature" -> ~IsRaised(expected) /\ p.signature # expected }

\* What is known of the call: the parameter set of its header, the values taken
\* from it, the signature recomputed for it and the checks it violates.
FactsAt(oauth_params, p, expected) ==
  [ oauth_params |-> oauth_params, p |-> p, expected |-> expected,
    codes |-> Violated(oauth_params, p, expected) ]

FactsWith(oauth_params, p) == FactsAt(oauth_params, p, Recomputed(p))

FactsOf(oauth_params) == FactsWith(oauth_params, ExtractParams(oauth_params))

CallFacts == FactsOf(HeaderParams)

\* The code in the set codes that comes first in the order.
Earliest(codes) == GateOrder[MinOf({ i \in DOMAIN GateOrder : GateOrder[i] \in codes })]

\* The verdict of a call that violates the checks codes is right.
FirstDecides(codes) ==
  /\ codes \ {"invalid_signature"} # {} => verdict.raised = ""
  /\ verdict.raised = "" =>
       IF codes = {} THEN verdict.valid
       ELSE ~verdict.valid /\ verdict.error = Earliest(codes)

\* The checks the call violates.
ViolatedChecks == CallFacts.codes

(***************************************************************************)
(* C1: the order of the checks                                             *)
(***************************************************************************)

\* C1: a call that violates a check before the signature check returns, and a
\* call that returns carries the code of the violated check that comes first in
\* the order missing_authorization, missing_parameters, invalid_consumer_key,
\* invalid_token, invalid_realm, invalid_signature_method, invalid_timestamp /
\* expired_timestamp, invalid_signature; it is valid when it violates none.
C1_FirstFailingCheckDecides == Returned => FirstDecides(ViolatedChecks)

\* A wrong consumer key together with a wrong signature has yielded
\* invalid_consumer_key.
C1_Witness_KeyBeforeSignature ==
  /\ Returned
  /\ verdict.error = "invalid_consumer_key"
  /\ {"invalid_consumer_key", "invalid_signature"} \subseteq ViolatedChecks

(***************************************************************************)
(* C2, C3: signature symmetry                                              *)
(***************************************************************************)

\* The timestamp text is a number within the tolerance of the clock value the
\* call read.
WithinTolerance(timestamp) ==
  /\ IntParses(timestamp)
  /\ call.time - IntValue(timestamp) <= Tolerance
  /\ IntValue(timestamp) - call.time <= Tolerance

\* The client of the call has described a request c with the credentials of the
\* server, an allowed method, a nonce, a timestamp within tolerance and the realm
\* of the server, and has signed it by the documented algorithm.
CorrectlySigned(c) ==
  /\ c.sign = "signed"
  /\ CanSign(c)
  /\ c.scheme_token = OAuthPrefix
  /\ c.junk = << >>
  /\ c.consumer_key = Credentials.consumer_key
  /\ c.token = Credentials.token_id
  /\ c.consumer_secret = Credentials.consumer_secret
  /\ c.token_secret = Credentials.token_secret
  /\ c.signature_method # None
  /\ \E i \in DOMAIN Credentials.signature_methods :
        Credentials.signature_methods[i] = c.signature_method
  /\ Truthy(c.nonce)
  /\ WithinTolerance(c.timestamp)
  /\ Truthy(Credentials.realm) => c.realm = Credentials.realm

\* C2: a request signed by the documented algorithm with the credentials of the
\* server and an allowed method, with a timestamp within tolerance and the realm
\* of the server, sent as it was signed, is validated with valid = True.
C2_SignedRequestAccepted ==
  (Returned /\ ~call.tamper /\ CorrectlySigned(call.c)) =>
     (verdict.raised = "" /\ verdict.valid)

\* The base string of the documented algorithm for the request c.
DocumentedBaseString(c) ==
  generate_signature_base_string(c.method, DocumentedNormalizeUrl(c),
                                 DocumentedSigningParams(c))

\* The request sent differs from the correctly signed request c in its base
\* string and carries the signature of c.
TamperedWith(c, w) ==
  /\ call.tamper
  /\ CorrectlySigned(c)
  /\ w.sign = "signed"
  /\ CanSign(w)
  /\ DocumentedBaseString(w) # DocumentedBaseString(c)

\* C3: where the gates before the signature check pass, valid = True is returned
\* only if the signature of the header equals the recomputed one, and a correctly
\* signed request whose method, URL or signed parameters are changed so that the
\* base string changes, the signature kept, yields invalid_signature.
SignatureDecides(f) ==
  /\ verdict.valid => (~IsRaised(f.expected) /\ f.p.signature = f.expected)
  /\ (TamperedWith(call.c, call.w) /\ f.codes \ {"invalid_signature"} = {}) =>
        (verdict.raised = "" /\ verdict.error = "invalid_signature")

C3_TamperedRequestRejected == Returned => SignatureDecides(CallFacts)

(***************************************************************************)
(* C4: the tolerance of the timestamp                                      *)
(***************************************************************************)

\* The call passes every check but that of the age of its timestamp.
PassesOtherChecks(f) ==
  /\ f.codes \subseteq {"expired_timestamp"}
  /\ ~IsRaised(f.expected)

\* The verdict on a timestamp that is age seconds behind the clock (ahead of it
\* when age is negative), the call being as f tells.
ToleranceBoundary(f, age) ==
  /\ (f.codes \cap BeforeTimestamp = {}) =>
        ((verdict.raised = "" /\ verdict.error = "expired_timestamp")
           <=> (age > Tolerance \/ 0 - age > Tolerance))
  /\ (PassesOtherChecks(f) /\ (age = Tolerance \/ 0 - age = Tolerance)) => verdict.valid
  /\ (PassesOtherChecks(f) /\ (age = Tolerance + 1 \/ 0 - age = Tolerance + 1)) =>
        (verdict.raised = "" /\ verdict.error = "expired_timestamp")

\* The timestamp of the call is a number and the verdict on it is right.
ToleranceOf(f) ==
  IntParses(f.p.timestamp) =>
     ToleranceBoundary(f, call.time - IntValue(f.p.timestamp))

\* C4: a request that passes every other check is accepted with a timestamp
\* exactly the tolerance before or after the current time and rejected with
\* expired_timestamp one second further away; the timestamp gate passes exactly
\* when the distance is at most the tolerance.
C4_ToleranceBoundary == Returned => ToleranceOf(CallFacts)

\* A request whose timestamp is exactly the tolerance in the past has been accepted.
C4_Witness_EdgeAccepted ==
  /\ Returned
  /\ verdict.valid
  /\ IntParses(call.w.timestamp)
  /\ call.time - IntValue(call.w.timestamp) = Tolerance

(***************************************************************************)
(* C5: the validator returns a verdict                                     *)
(***************************************************************************)

\* The error codes of the validator.
ErrorCodes == { GateOrder[i] : i \in DOMAIN GateOrder }

\* C5: every call of validate_oauth1_request returns a verdict and raises no
\* exception; a verdict that is not valid carries one code of the taxonomy.
C5_NeverRaises ==
  Returned =>
    /\ verdict.raised = ""
    /\ verdict.valid \/ verdict.error \in ErrorCodes

(***************************************************************************)
(* C6: no state between calls                                              *)
(***************************************************************************)

\* C6: a request that was accepted and is submitted again as it was, after any
\* calls made in between, is accepted again with the verdict it got while its
\* timestamp is within tolerance of the current time, and is rejected for its
\* timestamp only.
C6_ReplayAccepted ==
  (Returned /\ call.replay /\ remembered.verdict.valid) =>
     /\ WithinTolerance(call.c.timestamp) => verdict = remembered.verdict
     /\ ~verdict.valid => (verdict.raised = "" /\ verdict.error = "expired_timestamp")

\* An accepted request has been accepted again at a later second.
C6_Witness_ReplayedLater ==
  /\ Returned
  /\ call.replay
  /\ verdict.valid
  /\ call.time > remembered.call.time

(***************************************************************************)
(* C7: requests served side by side                                        *)
(***************************************************************************)

\* The verdict of the request of the frame w, validated alone against the
\* configuration of the server at the clock value w holds.
AloneVerdict(w) ==
  validate_request(w.request, get_credentials(environ), get_timestamp_tolerance(environ),
                   w.current_timestamp)

\* Every thread that has returned holds the verdict of its request validated alone.
VerdictsAsAlone ==
  \A t \in Threads :
     workers[t].stage = "returned" => workers[t].result = AloneVerdict(workers[t])

\* A step writes the frame of one thread at most and leaves the environment as it is.
WritesOwnFrame ==
  /\ environ' = environ
  /\ \E t \in Threads : \A u \in Threads \ {t} : workers'[u] = workers[u]

\* C7: under every interleaving of the threads each request gets the verdict it
\* gets when validated alone at the clock value its validation read, and no
\* step of a validation writes state that another validation reads.
C7_NoInterference == [](VerdictsAsAlone) /\ [][WritesOwnFrame]_vars

\* Two threads have returned, one with an accepted and one with an expired
\* request, having read the clock at different seconds.
C7_Witness_TwoThreads ==
  /\ workers[1].stage = "returned"
  /\ workers[2].stage = "returned"
  /\ workers[1].result.valid
  /\ workers[2].result.error = "expired_timestamp"
  /\ workers[1].current_timestamp # workers[2].current_timestamp

(***************************************************************************)
(* C9: missing_authorization                                               *)
(***************************************************************************)

\* The text holds a name="value" pair: a word character, then an equals sign and
\* a quote, and a closing quote further on.
HasPair(text) ==
  \E i \in 1..Len(text) :
     /\ i + 3 <= Len(text)
     /\ IsWordChar(text[i])
     /\ text[i + 1] = "="
     /\ text[i + 2] = "\""
     /\ \E j \in (i + 3)..Len(text) : text[j] = "\""

\* The header h carries the prefix "OAuth " and a pair behind it.
CarriesPair(h) ==
  /\ h # None
  /\ StartsWith(h, <<"O", "A", "u", "t", "h", " ">>)
  /\ HasPair(From(h, 7))

\* One of the five mandatory parameters is not in the parameter set.
MandatoryKeys ==
  << oauth_consumer_key, oauth_token, oauth_timestamp, oauth_nonce, oauth_signature >>

SomeAbsent(oauth_params) ==
  \E i \in DOMAIN MandatoryKeys : ~HasKey(oauth_params, MandatoryKeys[i])

\* The verdict on the header h, whose parameter set is oauth_params.
HeaderDecides(h, oauth_params) ==
  /\ (verdict.raised = "" /\ verdict.error = "missing_authorization")
        <=> oauth_params = EmptyDict
  /\ ~CarriesPair(h) => (verdict.raised = "" /\ verdict.error = "missing_authorization")
  /\ CarriesPair(h) =>
        /\ verdict.error # "missing_authorization"
        /\ SomeAbsent(oauth_params) => verdict.error = "missing_parameters"

\* C9: missing_authorization is returned exactly when the parsed parameter set
\* is empty; an absent or empty header, a header that does not start with the
\* literal "OAuth " and a header with no name="value" pair behind the prefix
\* yield it, and a header with the prefix and a pair goes on to the check of the
\* mandatory parameters.
C9_MissingAuthorization == Returned => HeaderDecides(call.args.auth_header, HeaderParams)

\* A header with the prefix in lower case has yielded missing_authorization.
C9_Witness_LowerCasePrefix ==
  /\ Returned
  /\ StartsWith(call.args.auth_header, <<"o", "a", "u", "t", "h", " ", "o", "a", "u", "t", "h", "_", "c", "o", "n", "s", "u", "m", "e", "r", "_", "k", "e", "y", "=", "\"">>)
  /\ verdict.error = "missing_authorization"

(***************************************************************************)
(* C10: missing_parameters                                                 *)
(***************************************************************************)

\* The mandatory keys that are not in the parameter set, and those that are not
\* in it or are in it with an empty value, in the order of MandatoryKeys.
Absent(oauth_params) ==
  SelectSeq(MandatoryKeys, LAMBDA k : ~HasKey(oauth_params, k))

AbsentOrEmpty(oauth_params) ==
  SelectSeq(MandatoryKeys, LAMBDA k : DictGet(oauth_params, k, << >>) = << >>)

\* The verdict on a parameter set that lacks the mandatory parameters lacking:
\* missing_parameters with their names when there are any, and the check of the
\* consumer key when there are none.
MissingDecides(oauth_params, lacking) ==
  /\ (verdict.raised = "" /\ verdict.error = "missing_parameters") <=> lacking # << >>
  /\ verdict.error = "missing_parameters" =>
        verdict.message = << "Missing required OAuth parameters: " >> \o Join(<<",", " ">>, lacking)
  /\ (lacking = << >>
        /\ DictGet(oauth_params, oauth_consumer_key, None) # Credentials.consumer_key) =>
        verdict.error = "invalid_consumer_key"

MissingIff(oauth_params, lacking) ==
  (Returned /\ oauth_params # EmptyDict) => MissingDecides(oauth_params, lacking)

\* C10 as claimed: for a non-empty parsed header missing_parameters is returned
\* if and only if one of the five mandatory parameters is absent from the header,
\* the message names exactly the absent ones, and a header with all five goes on
\* to the check of the consumer key.
C10_MissingIffAbsent == MissingIff(HeaderParams, Absent(HeaderParams))

\* C10 as the code has it: for a non-empty parsed header missing_parameters is
\* returned if and only if one of the five mandatory parameters is absent from
\* the header or present with an empty value, the message names exactly those,
\* and a header with all five non-empty goes on to the check of the consumer key.
C10_MissingIffAbsentOrEmpty == MissingIff(HeaderParams, AbsentOrEmpty(HeaderParams))

\* A header with oauth_nonce="" has yielded missing_parameters naming oauth_nonce.
C10_Witness_EmptyNonce ==
  /\ Returned
  /\ HasKey(HeaderParams, oauth_nonce)
  /\ DictGet(HeaderParams, oauth_nonce, None) = << >>
  /\ verdict.error = "missing_parameters"
  /\ verdict.message = << "Missing required OAuth parameters: " >> \o oauth_nonce

(***************************************************************************)
(* C11: the two codes of the timestamp gate                                *)
(***************************************************************************)

\* The parameters p have passed the gates of the consumer key, the token, the
\* realm and the signature method.
IdentityGatesPassed(p) ==
  /\ p.consumer_key = Credentials.consumer_key
  /\ p.token = Credentials.token_id
  /\ Credentials.realm \in { << >>, p.realm }
  /\ \E i \in DOMAIN Credentials.signature_methods :
        Credentials.signature_methods[i] = p.signature_method

\* The timestamp is a number further from the clock value of the call than the
\* tolerance.
OutsideWindow(timestamp) == IntParses(timestamp) /\ ~WithinTolerance(timestamp)

\* The verdict tells a timestamp that is no number from one outside the window.
TimestampCodes(f) ==
  /\ (f.codes \cap BeforeTimestamp = {} /\ ~IntParses(f.p.timestamp)) =>
        (verdict.raised = "" /\ verdict.error = "invalid_timestamp")
  /\ (f.codes \cap BeforeTimestamp = {} /\ OutsideWindow(f.p.timestamp)) =>
        (verdict.raised = "" /\ verdict.error = "expired_timestamp")
  /\ verdict.error = "invalid_timestamp" =>
        (~IntParses(f.p.timestamp) /\ IdentityGatesPassed(f.p))
  /\ verdict.error = "expired_timestamp" =>
        (OutsideWindow(f.p.timestamp) /\ IdentityGatesPassed(f.p))

\* C11: a timestamp that does not parse as an integer yields invalid_timestamp,
\* one that parses and lies outside the tolerance window yields
\* expired_timestamp, neither code stands for the other, and neither is returned
\* unless the gates of consumer key, token, realm and signature method have passed.
C11_TimestampCodes == Returned => TimestampCodes(CallFacts)

\* The timestamp 1x has yielded invalid_timestamp.
C11_Witness_NotANumber ==
  /\ Returned
  /\ call.w.timestamp = <<"1", "x">>
  /\ verdict.error = "invalid_timestamp"

(***************************************************************************)
(* C12: the debug payload                                                  *)
(***************************************************************************)

\* The payload of the verdict holds the recomputed signature, the signature of
\* the header and the base string whose signature the recomputed one is.
PayloadTells(f, debug) ==
  /\ debug.expected_signature = f.expected
  /\ debug.received_signature = f.p.signature
  /\ debug.received_signature = DictGet(f.oauth_params, oauth_signature, None)
  /\ debug.signature_base_string # None
  /\ generate_signature(debug.signature_base_string, Credentials.consumer_secret,
                        Credentials.token_secret, f.p.signature_method)
       = debug.expected_signature

DebugPayload(f) ==
  /\ "debug" \in verdict.keys <=> verdict.error = "invalid_signature"
  /\ "debug" \in verdict.keys => PayloadTells(f, verdict.debug)
  /\ "debug" \notin verdict.keys => verdict.debug = NoDebug

\* C12: a verdict carries the debug payload if and only if its error is
\* invalid_signature; the payload holds the expected signature, the received
\* signature and the base string that was signed, and every other verdict
\* carries none.
C12_DebugOnlyOnMismatch == (Returned /\ verdict.raised = "") => DebugPayload(CallFacts)

\* A request with a signature that is not the expected one has got the payload.
C12_Witness_Mismatch ==
  /\ Returned
  /\ verdict.error = "invalid_signature"
  /\ "debug" \in verdict.keys
  /\ verdict.debug.received_signature = GarbageSignature
  /\ verdict.debug.expected_signature # GarbageSignature

(***************************************************************************)
(* C13: the secrets stay in the server                                     *)
(***************************************************************************)

\* An endpoint has answered a request.
Answered == response # NoResponse

\* The text t stands somewhere in the value v.
ContainsText(v, t) ==
  \E i \in 1..(Len(v) - Len(t) + 1) : SubSeq(v, i, i + Len(t) - 1) = t

\* The consumer secret and the token secret of the configuration.
Secrets == { environ.OAUTH1_CONSUMER_SECRET, environ.OAUTH1_TOKEN_SECRET }

\* No value of the leaves holds a secret.
FreeOfSecrets(leaves) ==
  \A i \in DOMAIN leaves : \A s \in Secrets : ~ContainsText(leaves[i][2], s)

\* What a verdict holds: its message, its parameters and its payload.
VerdictLeaves(result) ==
  << << << "message" >>, result.message >> >>
  \o DictLeaves("oauth_params", result.oauth_params)
  \o DebugLeaves("debug", result.debug)

\* The leaves of the body that belong to the diagnostics of a signature mismatch.
IsDebugLeaf(leaf) == leaf[1][1] \in {"debug", "signature_debug"}

HasDebug(body) == \E i \in DOMAIN body : IsDebugLeaf(body[i])

\* The diagnostics are the two signatures, the base string and the signing parameters.
DiagnosticsOnly(body) ==
  \A i \in DOMAIN body :
     IsDebugLeaf(body[i]) =>
        body[i][1][2] \in { "expected_signature", "received_signature",
                            "signature_base_string", "signing_params" }

\* C13: no verdict of the validator and no response of /oauth1/resource,
\* /oauth1/echo, /oauth1/data and /oauth1/debug, the debug mode on or off, holds
\* the consumer secret or the token secret, and the diagnostics of a response are
\* the received and the expected signature, the base string and the signing
\* parameters only.
C13_NoSecretInResponses ==
  Answered =>
    /\ FreeOfSecrets(VerdictLeaves(response.result))
    /\ FreeOfSecrets(response.body)
    /\ DiagnosticsOnly(response.body)

\* /oauth1/debug has answered a signature mismatch with the diagnostics and with
\* what it tells of the credentials.
C13_Witness_DebugEndpoint ==
  /\ Answered
  /\ response.endpoint = "debug"
  /\ response.result.error = "invalid_signature"
  /\ \E i \in DOMAIN response.body :
        response.body[i][1] = << "signature_debug", "expected_signature" >>
  /\ \E i \in DOMAIN response.body :
        response.body[i] = << << "credentials_configured", "consumer_key" >>,
                              environ.OAUTH1_CONSUMER_KEY >>

(***************************************************************************)
(* C14: status codes and the debug mode                                    *)
(***************************************************************************)

\* A valid verdict is answered with 200 and a failure with 401, error and message.
StatusFollowsVerdict ==
  /\ response.result.valid => response.status = 200
  /\ ~response.result.valid =>
        /\ response.status = 401
        /\ \E i \in DOMAIN response.body :
              response.body[i] = << << "error" >>, << response.result.error >> >>
        /\ \E i \in DOMAIN response.body :
              response.body[i] = << << "message" >>, response.result.message >>

\* The verdict of the response is a signature mismatch.
Mismatch == response.result.error = "invalid_signature"

\* C14 as claimed: a valid verdict is answered with 200, a failure with 401,
\* error and message, and the diagnostics of a signature mismatch are in a
\* response only when the debug mode is on.
C14_DebugOnlyInDebugMode ==
  (Answered /\ response.result.raised = "") =>
     /\ StatusFollowsVerdict
     /\ HasDebug(response.body) => is_debug_mode(environ)

\* C14 as the code has it: a valid verdict is answered with 200, a failure with
\* 401, error and message; /oauth1/resource and /oauth1/echo carry the
\* diagnostics of a signature mismatch exactly when the debug mode is on,
\* /oauth1/debug carries them on every signature mismatch whatever the debug
\* mode, and /oauth1/data never carries them.
C14_DebugByEndpoint ==
  (Answered /\ response.result.raised = "") =>
     /\ StatusFollowsVerdict
     /\ response.endpoint \in {"resource", "echo"} =>
           (HasDebug(response.body) <=> (Mismatch /\ is_debug_mode(environ)))
     /\ response.endpoint = "debug" => (HasDebug(response.body) <=> Mismatch)
     /\ response.endpoint = "data" => ~HasDebug(response.body)

\* /oauth1/debug has answered a signature mismatch with the diagnostics while
\* the debug mode is off.
C14_Witness_DebugEndpointModeOff ==
  /\ Answered
  /\ response.endpoint = "debug"
  /\ ~is_debug_mode(environ)
  /\ response.status = 401
  /\ HasDebug(response.body)

(***************************************************************************)
(* C15: the round trip of the header                                       *)
(***************************************************************************)

\* parse_authorization_header has been applied to a serialised mapping.
Parsed == probe.op = "parse"

\* Every name of the mapping is a non-empty run of letters, digits and underscores.
WordNames(mapping) ==
  \A i \in DOMAIN mapping :
     /\ mapping[i][1] # << >>
     /\ \A j \in DOMAIN mapping[i][1] : IsWordChar(mapping[i][1][j])

\* C15 as claimed: for every parameter mapping, parsing its serialisation
\* returns the mapping.
C15_RoundTrip == Parsed => probe.output = probe.input

\* C15 as the code has it: for every parameter mapping whose names are non-empty
\* runs of word characters, parsing its serialisation returns the mapping, with
\* the same names and the same decoded values.
C15_RoundTripOfWordNames == (Parsed /\ WordNames(probe.input)) => probe.output = probe.input

\* A mapping of two names, one value with a quote in it, has come back as it was.
C15_Witness_QuotedValue ==
  /\ Parsed
  /\ Len(probe.input) = 2
  /\ probe.input[1] = << oauth_nonce, << "\"" >> >>
  /\ probe.input[2][2] = <<"a", "=", "b", ",", " ", "c", "=", "\"", "d", "\"">>
  /\ probe.output = probe.input

(***************************************************************************)
(* C16: what is signed                                                     *)
(***************************************************************************)

\* The call gets as far as the signature step and its query loop does not raise.
ReachesSigning(f) ==
  /\ f.codes \ {"invalid_signature"} = {}
  /\ ~QueryRaises(call.args.query_params)

\* The names that are kept out of the signed material.
Unsigned == { oauth_signature, realm_key }

\* The values of the header with another signature and another realm.
OtherSignatureAndRealm(p) == [ p EXCEPT !.signature = <<"o", "t", "h", "e", "r">>, !.realm = <<"o", "t", "h", "e", "r">> ]

\* The signing parameters have no entry of the names Unsigned.
NoUnsignedNames(sig_params) == \A k \in Unsigned : ~HasKey(sig_params, k)

\* The signing parameters have an entry of a name of Unsigned only where the
\* query string has a parameter of the name, and then with its first value.
UnsignedFromQueryOnly(sig_params, query_params) ==
  \A k \in Unsigned :
     /\ HasKey(sig_params, k) <=> HasKey(query_params, k)
     /\ HasKey(sig_params, k) =>
           DictGet(sig_params, k, None) = FirstValue(DictGet(query_params, k, None))

\* The recomputed signature is the same for another signature and another realm
\* in the header, and the payload of a mismatch shows the signing parameters.
HeaderValuesUnsigned(f, sig_params) ==
  /\ Recomputed(OtherSignatureAndRealm(f.p)) = f.expected
  /\ "debug" \in verdict.keys => verdict.debug.signing_params = sig_params

\* C16 as claimed: the signing parameters of every request hold no entry named
\* oauth_signature or realm, and the recomputed signature depends on neither value.
SignedMaterialAsClaimed(f, sig_params) ==
  ReachesSigning(f) => (NoUnsignedNames(sig_params) /\ HeaderValuesUnsigned(f, sig_params))

SignedAsClaimed(f) == SignedMaterialAsClaimed(f, SigParams(f.p, call.args.query_params))

SignedMaterial(f, sig_params) ==
  ReachesSigning(f) =>
     /\ UnsignedFromQueryOnly(sig_params, call.args.query_params)
     /\ HeaderValuesUnsigned(f, sig_params)

SignedOf(f) == SignedMaterial(f, SigParams(f.p, call.args.query_params))

Supported == { <<"H", "M", "A", "C", "-", "S", "H", "A", "2", "5", "6">>, <<"H", "M", "A", "C", "-", "S", "H", "A", "1">> }

\* The gates before that of the signature method.
BeforeMethod ==
  { "missing_authorization", "missing_parameters", "invalid_consumer_key",
    "invalid_token", "invalid_realm" }

\* A method generate_signature does not know is rejected at the gate of the
\* method, and the validator does not raise for it.
UnsupportedRejected(f) ==
  (f.p.signature_method \notin Supported) =>
     /\ verdict.raised = ""
     /\ f.codes \cap BeforeMethod = {} => verdict.error = "invalid_signature_method"

\* C17: the signing step is never reached with a signature method that
\* generate_signature does not support: the method of the request (HMAC-SHA256
\* when the header omits it) is rejected with invalid_signature_method before a
\* signature is computed, and the ValueError of generate_signature does not
\* occur inside validate_oauth1_request.
C17_UnsupportedMethodRejected == Returned => UnsupportedRejected(CallFacts)

(***************************************************************************)
(* C18: the realm gate                                                     *)
(***************************************************************************)

\* The gates before that of the realm.
BeforeRealm ==
  { "missing_authorization", "missing_parameters", "invalid_consumer_key", "invalid_token" }

\* The configuration names a realm.
RealmConfigured == environ.OAUTH1_REALM \notin { None, << >> }

\* The verdict of the realm gate on the realm of the header.
RealmGate(f, realm) ==
  /\ (RealmConfigured /\ f.codes \cap BeforeRealm = {}) =>
        ((verdict.raised = "" /\ verdict.error = "invalid_realm")
           <=> realm # environ.OAUTH1_REALM)
  /\ verdict.error = "invalid_realm" => (RealmConfigured /\ realm # environ.OAUTH1_REALM)
  /\ (RealmConfigured /\ verdict.valid) => realm = environ.OAUTH1_REALM

RealmGateOf(f) == RealmGate(f, DictGet(f.oauth_params, realm_key, None))

\* C18: with a realm configured a request passes the realm gate only if the
\* realm of its header equals it, an absent realm failing with invalid_realm;
\* with no realm configured the gate passes for every realm and for none, and
\* invalid_realm is never returned.
C18_RealmGate == Returned => RealmGateOf(CallFacts)

\* With no realm configured a request with a realm in its header has been accepted.
C18_Witness_NoRealmConfigured ==
  /\ Returned
  /\ ~RealmConfigured
  /\ DictGet(HeaderParams, realm_key, None) = <<"r", "2">>
  /\ verdict.valid

(***************************************************************************)
(* C19: the order of the parameters                                        *)
(***************************************************************************)

Reverse(s) == [ i \in 1..Len(s) |-> s[Len(s) + 1 - i] ]

Pairs(d) == { d[i] : i \in 1..Len(d) }

\* The header that carries the pairs of the parsed header in the reverse order.
ReorderedHeader(oauth_params) ==
  IF oauth_params = EmptyDict THEN call.args.auth_header
  ELSE Serialize(Reverse(oauth_params))

\* The query parameters with the keys in the reverse order, the values of a
\* repeated key in the order they have.
ReorderedKeys(query_params) == Reverse(query_params)

\* The query parameters in the reverse order: the keys, and the values of a
\* repeated key.
ReorderedQuery(query_params) ==
  [ i \in 1..Len(query_params) |->
      LET kv == query_params[Len(query_params) + 1 - i]
      IN  << kv[1], IF kv[2].is_list THEN ListValue(Reverse(kv[2].items)) ELSE kv[2] >> ]

\* Two verdicts are the same result: mappings are compared as mappings.
SameVerdict(v, w) ==
  /\ v.raised = w.raised
  /\ v.keys = w.keys
  /\ v.valid = w.valid
  /\ v.error = w.error
  /\ v.message = w.message
  /\ Pairs(v.oauth_params) = Pairs(w.oauth_params)
  /\ v.debug.expected_signature = w.debug.expected_signature
  /\ v.debug.received_signature = w.debug.received_signature
  /\ v.debug.signature_base_string = w.debug.signature_base_string
  /\ Pairs(v.debug.signing_params) = Pairs(w.debug.signing_params)

\* The base string of the signing parameters does not depend on their order.
CanonicalBaseString(sig_params) ==
  generate_signature_base_string(call.args.http_method, call.args.request_url,
                                 Reverse(sig_params))
    = generate_signature_base_string(call.args.http_method, call.args.request_url, sig_params)

\* The request with the header reordered and the query query_params has the
\* verdict of the call, and the base string is canonical.
OrderIndependent(f, query_params) ==
  /\ ~QueryRaises(call.args.query_params) =>
       CanonicalBaseString(SigParams(f.p, call.args.query_params))
  /\ SameVerdict(Validate([ call.args EXCEPT !.auth_header = ReorderedHeader(f.oauth_params),
                                            !.query_params = query_params ]),
                 verdict)

\* C19, as claimed: the base string of a set of key/value pairs is the same in
\* whatever order the pairs are given, and the verdict does not depend on the
\* order of the parameters in the Authorization header or in the query string,
\* the values of a repeated query key included.
C19_OrderIndependent ==
  (Returned /\ now = call.time) =>
    OrderIndependent(CallFacts, ReorderedQuery(call.args.query_params))

\* C19, amended: the base string of a set of key/value pairs is the same in
\* whatever order the pairs are given, and the verdict does not depend on the
\* order of the distinct names of the Authorization header or of the distinct
\* keys of the query string.
C19_OrderOfDistinctNames ==
  (Returned /\ now = call.time) =>
    OrderIndependent(CallFacts, ReorderedKeys(call.args.query_params))

\* A request with two query keys, both signed, has been accepted.
C19_Witness_TwoQueryKeys ==
  /\ Returned
  /\ now = call.time
  /\ verdict.valid
  /\ Len(call.args.query_params) = 2
  /\ Len(HeaderParams) > 2

(***************************************************************************)
(* C20: the first value of a query parameter                               *)
(***************************************************************************)

\* A key of the query has a second value.
HasLaterValues(query_params) ==
  \E i \in 1..Len(query_params) :
    query_params[i][2].is_list /\ Len(query_params[i][2].items) > 1

\* The query with the second and later values of every key changed.
LaterValuesChanged(query_params) ==
  [ i \in 1..Len(query_params) |->
      LET v == query_params[i][2]
      IN  << query_params[i][1],
             IF v.is_list /\ v.items # << >>
             THEN ListValue(<< v.items[1] >>
                            \o [ j \in 1..(Len(v.items) - 1) |-> v.items[j + 1] \o <<"9">> ])
             ELSE v >> ]

\* The query with the second and later values of every key left out.
LaterValuesDropped(query_params) ==
  [ i \in 1..Len(query_params) |->
      LET v == query_params[i][2]
      IN  << query_params[i][1],
             IF v.is_list /\ v.items # << >> THEN ListValue(<< v.items[1] >>) ELSE v >> ]

\* The query with the first value of the key at i changed.
FirstValueChanged(query_params, i) ==
  LET v == query_params[i][2]
  IN  [ query_params EXCEPT ![i] =
          << query_params[i][1],
             IF v.is_list THEN ListValue(<< v.items[1] \o <<"9">> >> \o Tail(v.items))
             ELSE StrValue(v.text \o <<"9">>) >> ]

\* The base string of the call with the query query_params.
BaseStringWith(p, query_params) ==
  generate_signature_base_string(call.args.http_method, call.args.request_url,
                                 SigParams(p, query_params))

\* The verdict of the call with the query query_params.
VerdictWith(query_params) == Validate([ call.args EXCEPT !.query_params = query_params ])

FirstValueOnly(f, query_params) ==
  /\ HasLaterValues(query_params) =>
       /\ VerdictWith(LaterValuesChanged(query_params)) = verdict
       /\ VerdictWith(LaterValuesDropped(query_params)) = verdict
       /\ BaseStringWith(f.p, LaterValuesChanged(query_params))
            = BaseStringWith(f.p, query_params)
  /\ ~QueryRaises(query_params) =>
       \A i \in 1..Len(query_params) :
         /\ << query_params[i][1], FirstValue(query_params[i][2]) >>
              \in Pairs(SigParams(f.p, query_params))
         /\ BaseStringWith(f.p, FirstValueChanged(query_params, i))
              # BaseStringWith(f.p, query_params)

\* C20: every query parameter enters the signing parameters with its first
\* value: the second and later values of a key change neither the base string
\* nor the verdict, and another first value of any key gives another base string.
C20_FirstValueOnly ==
  (Returned /\ now = call.time) => FirstValueOnly(CallFacts, call.args.query_params)

\* A request with a key of two values, signed over the first, has been accepted.
C20_Witness_TwoValues ==
  /\ Returned
  /\ now = call.time
  /\ verdict.valid
  /\ HasLaterValues(call.args.query_params)

(***************************************************************************)
(* C21: the normalised URL                                                 *)
(***************************************************************************)

\* normalize_url has been applied to the URL of the components probe.input.
Normalized == probe.op = "normalize_url"

\* The URL of the components c with the scheme and the host in other case, the
\* default port of the scheme written out where there is none, and no query.
Respelled(c) ==
  [ c EXCEPT !.scheme = Upper(c.scheme),
             !.host = Upper(c.host),
             !.port = IF c.port # None THEN c.port
                      ELSE IF Lower(c.scheme) = <<"h", "t", "t", "p">> THEN <<"8", "0">> ELSE <<"4", "4", "3">>,
             !.query_string = << >> ]

\* The result is the documented form of the URL, normalising it again gives
\* it back, and the URL spelled otherwise has the same result.
NormalizedAsDocumented(c, normalized) ==
  /\ normalized = DocumentedNormalizeUrl(c)
  /\ normalize_url(normalized) = normalized
  /\ normalize_url(UrlText(Respelled(c))) = normalized

\* C21: normalize_url returns scheme://host[:port]path with the scheme and the
\* host in lower case, the port left out when absent or the default of the
\* scheme and kept otherwise, the path kept ("/" when empty) and the query
\* string removed; it is idempotent, and URLs that differ in the case of scheme
\* and host, in a default port written out or in the query string have the same
\* normal form.
C21_NormalizedAsDocumented == Normalized => NormalizedAsDocumented(probe.input, probe.output)

(***************************************************************************)
(* C22: percent_encode                                                     *)
(***************************************************************************)

\* percent_encode has been applied to the string probe.input.
Encoded == probe.op = "percent_encode"

\* The unreserved characters of RFC 3986, written out.
Unreserved == <<"A", "B", "C", "D", "E", "F", "G", "H", "I", "J", "K", "L", "M", "N", "O", "P", "Q", "R", "S", "T", "U", "V", "W", "X", "Y", "Z", "a", "b", "c", "d", "e", "f", "g", "h", "i", "j", "k", "l", "m", "n", "o", "p", "q", "r", "s", "t", "u", "v", "w", "x", "y", "z", "0", "1", "2", "3", "4", "5", "6", "7", "8", "9", "-", "_", ".", "~">>

IsUnreserved(c) == \E i \in DOMAIN Unreserved : Unreserved[i] = c

\* The upper-case hexadecimal form of the UTF-8 bytes of the other characters
\* of the model, written out.
Escape(c) ==
  CASE c = " " -> <<"%", "2", "0">>
    [] c = "%" -> <<"%", "2", "5">>
    [] c = "/" -> <<"%", "2", "F">>
    [] c = "+" -> <<"%", "2", "B">>
    [] c = "=" -> <<"%", "3", "D">>
    [] c = EAcute -> <<"%", "C", "3", "%", "A", "9">>
    [] OTHER -> << >>

\* The string with every character that is not unreserved replaced by its escape.
Escaped(value) ==
  Concat([ i \in 1..Len(value) |->
             IF IsUnreserved(value[i]) THEN << value[i] >> ELSE Escape(value[i]) ],
         1, Len(value))

EncodedAsDocumented(value, encoded) ==
  /\ (\A i \in 1..Len(value) : IsUnreserved(value[i])) => encoded = value
  /\ encoded = Escaped(value)
  /\ \A j \in 1..Len(encoded) : IsUnreserved(encoded[j]) \/ encoded[j] = "%"

\* C22: percent_encode returns a string of unreserved characters as it is and
\* replaces every other character by %XX, in upper-case hexadecimal, for each of
\* its UTF-8 bytes: a space becomes %20, and the result holds unreserved
\* characters and '%' only.
C22_PercentEncode == Encoded => EncodedAsDocumented(probe.input, probe.output)

\* A space and a character of two bytes have been encoded.
C22_Witness_SpaceAndTwoBytes ==
  /\ Encoded
  /\ probe.input = << " ", EAcute >>
  /\ probe.output = <<"%", "2", "0", "%", "C", "3", "%", "A", "9">>

(***************************************************************************)
(* C23: the token storage of the mock OAuth 2.0 server                     *)
(***************************************************************************)

\* /v1/users or /v1/data has answered a request with a Bearer header.
BearerAnswered ==
  /\ oauth2.reply.endpoint \in { "users", "data" }
  /\ Truthy(oauth2.reply.authorization)
  /\ StartsWith(oauth2.reply.authorization, <<"B", "e", "a", "r", "e", "r", " ">>)

\* The ages, at the time of the reply r, of the token T as an access token of a
\* successful POST /v1/oauth/tokens.
AgesOf(T, r, issued) ==
  { r.at - issued[i].at : i \in { j \in 1..Len(issued) : issued[j].access_token = T } }

\* The reply r to 'Bearer T' is the one the history of the tokens calls for.
AnsweredByHistory(T, r, ages) ==
  /\ r.status = 200 <=> \E age \in ages : age <= 3600
  /\ (ages # {} /\ \A age \in ages : age > 3600) =>
        (r.status = 401 /\ r.error = "token_expired")
  /\ ages = {} => (r.status = 401 /\ r.error = "invalid_token")

\* Every token a successful POST /v1/oauth/tokens has sent is in the storage,
\* with the time it was sent at.
AllKept(storage, issued) ==
  \A i \in 1..Len(issued) :
     /\ HasKey(storage, issued[i].access_token)
     /\ DictGet(storage, issued[i].access_token, None).created_at = issued[i].at

\* C23: /v1/users and /v1/data answer 'Bearer T' with 200 exactly when T is the
\* access token of an earlier successful POST /v1/oauth/tokens and at most 3600
\* seconds have passed since; an older stored token is answered token_expired, a
\* token that was never stored (one of another endpoint among them) is answered
\* invalid_token, and no entry leaves the storage.
C23_TokenStore ==
  /\ AllKept(tokens, oauth2.issued)
  /\ BearerAnswered =>
       AnsweredByHistory(From(oauth2.reply.authorization, 8), oauth2.reply,
                         AgesOf(From(oauth2.reply.authorization, 8), oauth2.reply,
                                oauth2.issued))

\* A token sent 3600 seconds before has been answered with 200, a token of
\* another endpoint having been sent as well.
C23_Witness_LastSecond ==
  /\ BearerAnswered
  /\ oauth2.reply.status = 200
  /\ 3600 \in AgesOf(From(oauth2.reply.authorization, 8), oauth2.reply, oauth2.issued)
  /\ oauth2.minted # {}

====
